---- MODULE Spec2Model ----
(***************************************************************************)
(* Personal-DJ: splice planning, candidate generation, blend envelopes and *)
(* the offline render schedule.                                            *)
(*                                                                         *)
(* Numbers.  The program computes in IEEE doubles.  The model uses         *)
(* integers:                                                               *)
(*   - times are milliseconds (1 s = 1000);                                *)
(*   - gains, sample amplitudes and playback rates are fixed point with    *)
(*     FxOne = 1.0;                                                        *)
(*   - Math.cos / Math.sin / Math.exp / Math.pow are evaluated by series   *)
(*     in that fixed point (a few units of 1/FxOne of error).              *)
(*                                                                         *)
(* Three specifications share the variables; each one drives only its own  *)
(* group and leaves the other groups in their idle value:                  *)
(*   SpecBlend  the gain-curve loops (makeCurve, applyBlendEnvelope,       *)
(*              renderTwoBarPreview);                                      *)
(*   SpecMix    mixTracks: planSplice, tempo match, buildMixGraph, render; *)
(*   SpecQA     the /qa page: getDefaultRanges, generateCandidates,        *)
(*              onRender -> renderTwoBarPreview.                           *)
(***************************************************************************)
EXTENDS Integers, Sequences, FiniteSets, TLC

VARIABLES
    \* ---- blend library ----
    curveSrc,     \* which loop is running: "makeCurve" | "overlap" | "preview"
    curveKind,    \* Blend kind for makeCurve ("none" for the other loops)
    curveI,       \* loop counter i
    curveA,       \* gains written for track A so far (a[], index i+1)
    curveB,       \* gains written for track B so far (b[])
    \* ---- mixTracks ----
    mixPc,        \* "idle" | "decoded" | "planned" | "rendered"
    mixIn,        \* decoded buffers, analysis results and the request
    plan,         \* SplicePlan returned by planSplice
    tempo,        \* safe BPMs and playbackRateB of the tempo match
    render,       \* schedule and output of the offline render
    \* ---- QA page ----
    qaPc,         \* "idle" | "analyzed" | "computed" | "rendered"
    qaIn,         \* the two EssentiaAnalysisResults and the crossfade setting
    ranges,       \* { rangeA, rangeB } of getDefaultRanges
    cands,        \* candidates: ScoredCandidate[] of computeBestSplice
    selected,     \* index in cands of selectedCandidate, 0 for null
    qaRender,     \* what onRender / renderTwoBarPreview scheduled
    \* ---- audioBufferToWav ----
    wavPc,        \* "idle" | "encoding" | "decoded"
    wavBuf,       \* the AudioBuffer being encoded
    wavFile,      \* header fields and 16-bit data words written so far
    wavOut,       \* the buffer decoded back from the file
    \* ---- analyzeFallback on a signal and on the same signal scaled ----
    fbPc,         \* "idle" | "rms" | "envelope" | "done"
    fbIn,         \* frame RMS of the signal, the gain factor, the hop
    fbEnv,        \* normalised onset envelopes: plain and scaled signal
    fbBpm,        \* BPM estimates: plain and scaled signal
    \* ---- essentiaClient: loader and analyzeBuffer calls ----
    loaded,       \* let loaded
    loading,      \* let loading
    lastError,    \* let lastError: "undefined" or the message kind
    backend,      \* let backend: "null" | "essentia" | "fallback"
    abPc,         \* position of each analyzeBuffer call
    abResult,     \* what each call settled with
    abEnv,        \* what the CDN and the Essentia analysis of each buffer do
    \* ---- main page (TwoTrackUploader) ----
    files,        \* fileA / fileB: is a file selected
    settings,     \* vibe, blend and crossfade
    isProcessing, \* useState isProcessing
    error,        \* useState error ("null" or the message)
    previewUrl,   \* useState previewUrl (0 = null, k = the k-th object URL)
    playbackState,\* useState playbackState
    handler,      \* the handler awaiting mixTracks, previewUrl at its call,
                  \* and how the last handler ended
    \* ---- buildMixGraph + render, called repeatedly ----
    graphIn,      \* the arguments: plan, rate, vibe, blend mode, time offset
    rendered,     \* the output buffers of the calls made so far
    \* ---- pure functions called on their own: arguments and result ----
    callIn,       \* the arguments of the call
    callOut,      \* the value returned (None before the return)
    \* ---- /qa page: analyzeFile runs ----
    fileOf,       \* fileA / fileB: the file selected per track (0 = null)
    analysisOf,   \* analysisA / analysisB: the file each was computed from (0 = null)
    isAnalyzing,  \* the flag that disables the buttons
    pending,      \* the analyzeFile runs in flight
    started,      \* number of analyzeFile runs started so far
    pressed       \* what Compute best splice saw when it ran (None before)

blendVars == <<curveSrc, curveKind, curveI, curveA, curveB>>
mixVars   == <<mixPc, mixIn, plan, tempo, render>>
qaVars    == <<qaPc, qaIn, ranges, cands, selected, qaRender>>
wavVars   == <<wavPc, wavBuf, wavFile, wavOut>>
fbVars    == <<fbPc, fbIn, fbEnv, fbBpm>>
abVars    == <<loaded, loading, lastError, backend, abPc, abResult, abEnv>>
pageVars  == <<files, settings, isProcessing, error, previewUrl,
               playbackState, handler>>
graphVars == <<graphIn, rendered>>
callVars  == <<callIn, callOut>>
anaVars   == <<fileOf, analysisOf, isAnalyzing, pending, started, pressed>>
vars      == <<curveSrc, curveKind, curveI, curveA, curveB,
               mixPc, mixIn, plan, tempo, render,
               qaPc, qaIn, ranges, cands, selected, qaRender,
               wavPc, wavBuf, wavFile, wavOut,
               fbPc, fbIn, fbEnv, fbBpm,
               loaded, loading, lastError, backend, abPc, abResult, abEnv,
               files, settings, isProcessing, error, previewUrl,
               playbackState, handler, graphIn, rendered,
               callIn, callOut,
               fileOf, analysisOf, isAnalyzing, pending, started, pressed>>
\* everything outside one component
notAna    == <<blendVars, mixVars, qaVars, wavVars,
               fbVars, abVars, pageVars, graphVars, callVars>>
notCall   == <<blendVars, mixVars, qaVars, wavVars,
               fbVars, abVars, pageVars, graphVars, anaVars>>
notBlend  == <<mixVars, qaVars, wavVars, fbVars, abVars, pageVars,
               graphVars, callVars, anaVars>>
notMix    == <<blendVars, qaVars, wavVars, fbVars, abVars, pageVars,
               graphVars, callVars, anaVars>>
notQA     == <<blendVars, mixVars, wavVars, fbVars, abVars, pageVars,
               graphVars, callVars, anaVars>>
notWav    == <<blendVars, mixVars, qaVars, fbVars, abVars, pageVars,
               graphVars, callVars, anaVars>>
notFb     == <<blendVars, mixVars, qaVars, wavVars, abVars, pageVars,
               graphVars, callVars, anaVars>>
notPage   == <<blendVars, mixVars, qaVars, wavVars, fbVars, abVars,
               graphVars, callVars, anaVars>>
notGraph  == <<blendVars, mixVars, qaVars, wavVars, fbVars, abVars,
               pageVars, callVars, anaVars>>
notAb     == <<blendVars, mixVars, qaVars, wavVars, fbVars, pageVars,
               graphVars, callVars, anaVars>>

None == [none |-> TRUE]

(***************************************************************************)
(* Arithmetic helpers                                                      *)
(***************************************************************************)
Min(a, b) == IF a <= b THEN a ELSE b
Max(a, b) == IF a >= b THEN a ELSE b
Abs(a) == IF a < 0 THEN 0 - a ELSE a
Clamp(v, lo, hi) == Min(hi, Max(lo, v))

\* Math.round(a / b) for a >= 0, b > 0 (round half up)
RoundDiv(a, b) == (2 * a + b) \div (2 * b)

\* Math.ceil(a / b) for a >= 0, b > 0
CeilDiv(a, b) == (a + b - 1) \div b

FxOne == 10000
FxMul(a, b) == (a * b) \div FxOne

\* pi/2 in fixed point
FxHalfPi == (15708 * FxOne) \div 10000

\* Math.cos on [0, pi/2]: Taylor polynomial of degree 10 in Horner form
FxCos(theta) ==
    LET t2 == FxMul(theta, theta)
        h5 == FxOne - (t2 \div 90)
        h4 == FxOne - (FxMul(t2, h5) \div 56)
        h3 == FxOne - (FxMul(t2, h4) \div 30)
        h2 == FxOne - (FxMul(t2, h3) \div 12)
    IN  Max(0, FxOne - (FxMul(t2, h2) \div 2))

\* Math.sin on [0, pi/2]
FxSin(theta) == FxCos(FxHalfPi - theta)

\* Math.exp(-u) for u >= 0: exp(-u/16) by its series, then squared 4 times
FxExpNeg(u) ==
    IF u >= 16 * FxOne THEN 0
    ELSE LET v  == u \div 16
             h6 == FxOne - (v \div 6)
             h5 == FxOne - (FxMul(v, h6) \div 5)
             h4 == FxOne - (FxMul(v, h5) \div 4)
             h3 == FxOne - (FxMul(v, h4) \div 3)
             h2 == FxOne - (FxMul(v, h3) \div 2)
             e1 == FxOne - FxMul(v, h2)
             e2 == FxMul(e1, e1)
             e4 == FxMul(e2, e2)
             e8 == FxMul(e4, e4)
         IN  FxMul(e8, e8)

\* -Math.log(m) for m in [FxOne/2, FxOne]: sum of (1-m)^k / k, k = 1..12
RECURSIVE LnSeries(_, _, _)
LnSeries(d, pw, k) ==
    IF k > 12 \/ pw = 0 THEN 0
    ELSE (pw \div k) + LnSeries(d, FxMul(pw, d), k + 1)

\* ln 2 in fixed point
FxLn2 == (6931 * FxOne) \div 10000

\* -Math.log(x) for x in (0, FxOne]: halve the range until x >= 1/2
RECURSIVE FxNegLn(_)
FxNegLn(x) ==
    IF x >= FxOne \div 2 THEN LnSeries(FxOne - x, FxOne - x, 1)
    ELSE FxLn2 + FxNegLn(2 * x)

\* 1 / Math.log2(7) in fixed point (the exponent of the "log" blend)
FxInvLog2Of7 == (3562 * FxOne) \div 10000

\* Math.pow(x, 1 / Math.log2(7)) for x in [0, FxOne]
FxPowLog(x) ==
    IF x <= 0 THEN 0
    ELSE IF x >= FxOne THEN FxOne
    ELSE FxExpNeg(FxMul(FxNegLn(x), FxInvLog2Of7))

(***************************************************************************)
(* Blend envelope library                                                  *)
(***************************************************************************)
Blends == {"equalPower", "sCurve", "log", "cut", "ducked"}

\* makeCurve(kind, n = 256): number of curve points
CurveN == 256
\* applyBlendEnvelope "overlap": steps
OverlapSteps == 128
\* renderTwoBarPreview: N
PreviewN == 64

\* the Gaussian dip of the "ducked" curve:
\*   dip = 1 - Math.exp(-Math.pow((x - 0.35) / 0.18, 2))
DuckDip(x) ==
    LET q == (Abs(x - (35 * FxOne) \div 100) * FxOne) \div ((18 * FxOne) \div 100)
    IN  FxOne - FxExpNeg(FxMul(q, q))

\* body of the makeCurve loop: (ga, gb) at x = i / (n - 1)
MakeCurveGainA(kind, i, n) ==
    LET x == (i * FxOne) \div (n - 1)
        theta == (FxHalfPi * i) \div (n - 1)
    IN  CASE kind = "equalPower" -> FxCos(theta)
          [] kind = "sCurve" -> FxOne - FxMul(FxMul(x, x), 3 * FxOne - 2 * x)
          [] kind = "log" -> FxPowLog(FxOne - x)
          [] kind = "ducked" ->
                Max(0, FxMul(FxCos(theta), FxOne - FxMul((35 * FxOne) \div 100, DuckDip(x))))
          [] kind = "cut" -> IF i < n - 1 THEN FxOne ELSE 0
          [] OTHER -> FxOne - x

MakeCurveGainB(kind, i, n) ==
    LET x == (i * FxOne) \div (n - 1)
        theta == (FxHalfPi * i) \div (n - 1)
    IN  CASE kind = "equalPower" -> FxSin(theta)
          [] kind = "sCurve" -> FxMul(FxMul(x, x), 3 * FxOne - 2 * x)
          [] kind = "log" -> FxPowLog(x)
          [] kind = "ducked" -> FxSin(theta)
          [] kind = "cut" -> IF i > 0 THEN FxOne ELSE 0
          [] OTHER -> x

\* applyBlendEnvelope, case "overlap": gains set at step i of 0..steps
OverlapGainA(i) ==
    LET c == FxCos((FxHalfPi * i) \div OverlapSteps) IN FxMul(c, c)
OverlapGainB(i) ==
    LET s == FxSin((FxHalfPi * i) \div OverlapSteps) IN FxMul(s, s)

\* renderTwoBarPreview: aCurve[i], bCurve[i]
PreviewGainA(i) == FxCos((FxHalfPi * i) \div (PreviewN - 1))
PreviewGainB(i) == FxSin((FxHalfPi * i) \div (PreviewN - 1))

\* number of points each loop writes
CurveLen(src) ==
    CASE src = "makeCurve" -> CurveN
      [] src = "overlap" -> OverlapSteps + 1
      [] src = "preview" -> PreviewN

BlendIdle ==
    /\ curveSrc = "idle" /\ curveKind = "none" /\ curveI = 0
    /\ curveA = <<>> /\ curveB = <<>>

InitBlend ==
    /\ \/ curveSrc = "makeCurve" /\ curveKind \in Blends
       \/ curveSrc \in {"overlap", "preview"} /\ curveKind = "none"
    /\ curveI = 0
    /\ curveA = <<>>
    /\ curveB = <<>>

\* one iteration of the for loop of makeCurve
MakeCurveStep ==
    /\ curveSrc = "makeCurve"
    /\ curveI < CurveN
    /\ curveA' = Append(curveA, MakeCurveGainA(curveKind, curveI, CurveN))
    /\ curveB' = Append(curveB, MakeCurveGainB(curveKind, curveI, CurveN))
    /\ curveI' = curveI + 1
    /\ UNCHANGED <<curveSrc, curveKind>>
    /\ UNCHANGED notBlend

\* one iteration of the "overlap" loop of applyBlendEnvelope (i = 0..steps)
OverlapStep ==
    /\ curveSrc = "overlap"
    /\ curveI <= OverlapSteps
    /\ curveA' = Append(curveA, OverlapGainA(curveI))
    /\ curveB' = Append(curveB, OverlapGainB(curveI))
    /\ curveI' = curveI + 1
    /\ UNCHANGED <<curveSrc, curveKind>>
    /\ UNCHANGED notBlend

\* one iteration of the pre-gain curve loop of renderTwoBarPreview
PreviewCurveStep ==
    /\ curveSrc = "preview"
    /\ curveI < PreviewN
    /\ curveA' = Append(curveA, PreviewGainA(curveI))
    /\ curveB' = Append(curveB, PreviewGainB(curveI))
    /\ curveI' = curveI + 1
    /\ UNCHANGED <<curveSrc, curveKind>>
    /\ UNCHANGED notBlend

(***************************************************************************)
(* mixTracks: analysis inputs                                              *)
(***************************************************************************)
\* ---- bounds of the explored inputs ----
DurStepMs == 12000       \* track durations are multiples of this
MaxDurStepsA == 7        \* durationA in 0 .. MaxDurStepsA * DurStepMs
DurBShortMs == 4000      \* the two durations tried for track B
DurBLongMs == 21000
XfStepMs == 7000         \* crossfade = XfMinMs + k * XfStepMs
XfSteps == 3
FrameStepMs == 64        \* frameDurationSec of the analysis: 512 / 8000 Hz
PeakStride == 32         \* section peaks are tried on every PeakStride-th beat

\* crossfade lower bound of the request interface (3 s); the upper end,
\* XfMinMs + XfSteps * XfStepMs, is the 24 s of the UI slider
XfMinMs == 3000

DurationsA == {k * DurStepMs : k \in 0..MaxDurStepsA}
DurationsB == {DurBShortMs, DurBLongMs}
Crossfades == {XfMinMs + k * XfStepMs : k \in 0..XfSteps}
BpmsA == {60, 120}
BpmsB == {117, 119, 123}

\* getBeatGrid: for (t = 0; t < duration; t += 60 / bpm) beats.push(t);
\* an empty list when the detector gives no tempo
GetBeatGrid(duration, bpm) ==
    IF bpm <= 0 THEN <<>>
    ELSE LET secPerBeat == 60000 \div bpm
         IN  [k \in 1..CeilDiv(duration, secPerBeat) |-> (k - 1) * secPerBeat]

\* analyzeTrack, energyProfile: one smoothed RMS value per ~1 s window.
\* "shape" selects the signal content.
EnergyShapes == {"none", "flat", "rising", "zigzag"}
EnergyProfile(shape, duration) ==
    LET n == CeilDiv(duration, 1000)
    IN  CASE shape = "none" -> <<>>
          [] shape = "flat" -> [i \in 1..n |-> 5]
          [] shape = "rising" -> [i \in 1..n |-> i]
          [] shape = "zigzag" -> [i \in 1..n |-> 1 + ((i * 3) % 5)]

\* analyzeTrack, spectralFlux: one value per frame
FluxShapes == {"none", "spiky"}
SpectralFlux(shape, duration) ==
    LET n == duration \div FrameStepMs
    IN  CASE shape = "none" -> <<>>
          [] shape = "spiky" -> [i \in 1..n |-> IF i % 4 = 1 THEN 10 ELSE 1]

\* AnalysisResult of analyzeTrack for a buffer of the given duration:
\* bpm = (await getBpm(decoded)) || 120, beats = await getBeatGrid(decoded)
AnalysesA(duration) ==
    { [bpm |-> b, beats |-> IF g THEN GetBeatGrid(duration, b) ELSE <<>>,
       energyProfile |-> EnergyProfile(e, duration),
       spectralFlux |-> SpectralFlux(f, duration),
       frameDurationSec |-> FrameStepMs] :
      b \in BpmsA, g \in BOOLEAN, e \in EnergyShapes, f \in FluxShapes }

AnalysesB(duration) ==
    { [bpm |-> b, beats |-> IF g THEN GetBeatGrid(duration, b) ELSE <<>>] :
      b \in BpmsB, g \in BOOLEAN }

(***************************************************************************)
(* planSplice                                                              *)
(***************************************************************************)
MinIntro == 30000
MinOutro == 15000
DtwK == 8

SafeBpm(bpm) == IF bpm > 0 THEN bpm ELSE 120

\* Empty-beat protection
BeatsAsec(beatsA, durationA) == IF Len(beatsA) > 0 THEN beatsA ELSE <<0, durationA>>
BeatsBsec(beatsB) == IF Len(beatsB) > 0 THEN beatsB ELSE <<0>>

\* 1) DJ guardrails
Earliest(durationA, xf) ==
    Max(0, Min(MinIntro, Max(0, durationA - xf - MinOutro)))
Latest(durationA, xf) ==
    Max(Earliest(durationA, xf), durationA - xf - MinOutro)
WindowStart(durationA, xf) ==
    Min(Earliest(durationA, xf), Max(0, (durationA * 3) \div 10))
WindowEnd(durationA, xf) ==
    Max(WindowStart(durationA, xf), Latest(durationA, xf))

\* largest index i <= k with lo <= list[i] <= hi, 0 when there is none
RECURSIVE LastIdxIn(_, _, _, _)
LastIdxIn(list, lo, hi, k) ==
    IF k = 0 THEN 0
    ELSE IF list[k] >= lo /\ list[k] <= hi THEN k
    ELSE LastIdxIn(list, lo, hi, k - 1)

\* last element of list.filter(t => t >= lo && t <= hi), or dflt when none
LastInWindow(list, lo, hi, dflt) ==
    LET i == LastIdxIn(list, lo, hi, Len(list))
    IN  IF i = 0 THEN dflt ELSE list[i]

\* detectSections: the beat indices (0-based) at which a novelty peak can be
\* reported for N = beatChroma.length chroma vectors: none when N < 4, only
\* where the kernel of half width w = min(8, floor(N / 6)) fits, and never at
\* the first or last index.
SectionPeakIdx(N) ==
    IF N < 4 THEN {}
    ELSE LET w == Min(8, N \div 6)
         IN  IF w = 0 THEN {}
             ELSE {t \in Max(1, w)..Min(N - 2, N - w - 1) : t % PeakStride = 0}

\* detectSections: the boundary lists it can return for a beat list, the
\* chroma content being free: peaks.map(bi => beatsSec[min(bi, len - 1)]),
\* peaks being strict local maxima in increasing order (here at most two)
SectionLists(beatsSec) ==
    LET P == SectionPeakIdx(Len(beatsSec) - 1)
        at(bi) == beatsSec[Min(bi, Len(beatsSec) - 1) + 1]
    IN  {<<>>} \cup {<<at(p)>> : p \in P}
        \cup {<<at(pq[1]), at(pq[2])>> : pq \in {x \in P \X P : x[2] > x[1] + 1}}

\* 2) Section boundary candidate, or last beat in window, or windowEnd
SectionCandidate(haveBuffers, boundsA, beatsAsec, windowStart, windowEnd) ==
    LET lastBeat == LastInWindow(beatsAsec, windowStart, windowEnd, windowEnd)
    IN  IF haveBuffers
        THEN LastInWindow(boundsA, windowStart, windowEnd, lastBeat)
        ELSE lastBeat

\* smallest index i >= k with list[i] >= v, 0 when there is none
RECURSIVE FirstIdxGeq(_, _, _)
FirstIdxGeq(list, v, k) ==
    IF k > Len(list) THEN 0
    ELSE IF list[k] >= v THEN k
    ELSE FirstIdxGeq(list, v, k + 1)

\* beatsAsec.findIndex(t => t >= candidate), clamped to the last index (0-based)
AIdxEnd(beatsAsec, candidate) ==
    LET i == FirstIdxGeq(beatsAsec, candidate, 1)
    IN  IF i = 0 THEN Len(beatsAsec) - 1 ELSE i - 1

\* lengths of aSlice and bSlice handed to dtwOffsetBeats
ASliceLen(beatsAsec, candidate) ==
    LET aIdxEnd == AIdxEnd(beatsAsec, candidate)
        aIdxStart == Max(0, aIdxEnd - DtwK)
    IN  Max(0, Min(aIdxEnd, Len(beatsAsec) - 1) - aIdxStart)
BSliceLen(beatsBsec) == Min(DtwK, Len(beatsBsec) - 1)

\* index (0-based) of the beat of B nearest to b0, first one on ties
NearestBeatIdx(beatsBsec, b0) ==
    CHOOSE i \in 0..(Len(beatsBsec) - 1) :
        /\ \A j \in 0..(Len(beatsBsec) - 1) :
              Abs(beatsBsec[i + 1] - b0) <= Abs(beatsBsec[j + 1] - b0)
        /\ \A j \in 0..(i - 1) :
              Abs(beatsBsec[j + 1] - b0) > Abs(beatsBsec[i + 1] - b0)

\* 5) DTW harmonic nudge: entry second of B for the prefix length jBest that
\* dtwOffsetBeats picked (offsetBeats = jBest - n)
DtwEntrySecB(beatsBsec, boundsB, n, jBest) ==
    LET offsetBeats == jBest - n
        last == Len(beatsBsec) - 1
        base == Max(0, Min(last, offsetBeats))
        idx == IF Len(boundsB) > 0
               THEN Max(0, Min(last, NearestBeatIdx(beatsBsec, boundsB[1]) + offsetBeats))
               ELSE base
    IN  beatsBsec[idx + 1]

\* 3) Energy trough refinement: the first minimum of epA among the 1 s bins
\* inside the window and within 2 beats of the candidate
RefineEnergy(epA, candidate, windowStart, windowEnd, secPerBeatA) ==
    LET ok == {i \in 0..(Len(epA) - 1) :
                 /\ i * 1000 >= windowStart /\ i * 1000 <= windowEnd
                 /\ Abs(i * 1000 - candidate) <= 2 * secPerBeatA}
    IN  IF ok = {} THEN candidate
        ELSE 1000 * (CHOOSE i \in ok :
                        /\ \A j \in ok : epA[i + 1] <= epA[j + 1]
                        /\ \A j \in ok : j < i => epA[j + 1] > epA[i + 1])

\* fluxA.reduce((s, v) => s + v, 0): sum of s[lo..hi], by halves
RECURSIVE SumRange(_, _, _)
SumRange(s, lo, hi) ==
    IF lo > hi THEN 0
    ELSE IF lo = hi THEN s[lo]
    ELSE LET mid == (lo + hi) \div 2
         IN  SumRange(s, lo, mid) + SumRange(s, mid + 1, hi)
SumSeq(s) == SumRange(s, 1, Len(s))

\* 4) Avoid strong onset at fadeStart: fluxA[idx] > 2 * meanFlux
NudgeFlux(fluxA, frameStepA, fadeStart, windowStart, secPerBeatA) ==
    IF Len(fluxA) > 0 /\ frameStepA > 0
    THEN LET idx == Max(0, Min(Len(fluxA) - 1, fadeStart \div frameStepA))
         IN  IF fluxA[idx + 1] * Len(fluxA) > 2 * SumSeq(fluxA)
             THEN Max(windowStart, fadeStart - secPerBeatA)
             ELSE fadeStart
    ELSE fadeStart

\* (variant that fades over all the remaining audio of A)
RawFadeDurUncapped(xf, durationA, fadeStart) == Max(0, durationA - fadeStart)
\* rawFadeDur: non-negative and fits the remaining audio
RawFadeDur(xf, durationA, fadeStart) == Min(xf, Max(0, durationA - fadeStart))

\* 6) Final durations, B entry and sanity clamps; dtwEntrySecB is <<>> when
\* undefined and <<seconds>> otherwise
FinalPlan(fadeStart0, dtwEntrySecB, beatsBsec, durationA, xf) ==
    LET rawFadeDur == RawFadeDur(xf, durationA, fadeStart0)
        entry0 == IF dtwEntrySecB # <<>> THEN dtwEntrySecB[1] ELSE beatsBsec[1]
        entry1 == IF entry0 < 0 THEN 0 ELSE entry0
        fadeStart1 == IF fadeStart0 < 0 THEN 0 ELSE fadeStart0
    IN  IF rawFadeDur < 0
        THEN [fadeStart |-> Max(0, durationA - 2000), fadeDur |-> rawFadeDur,
              entryBeatB |-> 0]
        ELSE [fadeStart |-> fadeStart1, fadeDur |-> rawFadeDur,
              entryBeatB |-> entry1]

\* haveBuffers = !!bufA && !!bufB && beatsAsec.length > 2 && beatsBsec.length > 1
HaveBuffers(haveBufs, beatsAsec, beatsBsec) ==
    haveBufs /\ Len(beatsAsec) > 2 /\ Len(beatsBsec) > 1

\* 2) the candidates planSplice can settle on for one pair of analyses, over
\* the boundary lists detectSections can return for buffer A
Candidates(haveBuffers, beatsAsec, windowStart, windowEnd) ==
    { SectionCandidate(haveBuffers, boundsA, beatsAsec, windowStart, windowEnd) :
        boundsA \in SectionLists(beatsAsec) }

\* 5) the values of dtwEntrySecB for a candidate, over the boundary lists of
\* buffer B and the prefix lengths jBest in 1..m that dtwOffsetBeats can pick;
\* <<>> when the DTW branch is not taken
DtwEntries(haveBuffers, beatsAsec, beatsBsec, candidate) ==
    LET n == ASliceLen(beatsAsec, candidate)
        m == BSliceLen(beatsBsec)
    IN  IF haveBuffers /\ n > 0 /\ m > 0
        THEN { <<DtwEntrySecB(beatsBsec, boundsB, n, jBest)>> :
                 boundsB \in SectionLists(beatsBsec), jBest \in 1..m }
        ELSE { <<>> }

\* 3), clamp, 4): fadeStart before the final sanity clamps
RefinedFadeStart(anaA, candidate, windowStart, windowEnd) ==
    LET secPerBeatA == 60000 \div SafeBpm(anaA.bpm)
        refined == RefineEnergy(anaA.energyProfile, candidate, windowStart,
                                windowEnd, secPerBeatA)
        clamped == Min(Max(refined, windowStart), windowEnd)
    IN  NudgeFlux(anaA.spectralFlux, anaA.frameDurationSec, clamped,
                  windowStart, secPerBeatA)

\* planSplice(analysisA, analysisB, durationA, crossfadeSeconds, bufA, bufB):
\* the plans it can return, the chroma content of the two buffers being free
PlanSplice(anaA, anaB, durationA, xf, haveBufs) ==
    LET beatsAsec == BeatsAsec(anaA.beats, durationA)
        beatsBsec == BeatsBsec(anaB.beats)
        windowStart == WindowStart(durationA, xf)
        windowEnd == WindowEnd(durationA, xf)
        haveBuffers == HaveBuffers(haveBufs, beatsAsec, beatsBsec)
    IN  UNION { { FinalPlan(RefinedFadeStart(anaA, candidate, windowStart, windowEnd),
                            dtwEntry, beatsBsec, durationA, xf) :
                    dtwEntry \in DtwEntries(haveBuffers, beatsAsec, beatsBsec, candidate) } :
                candidate \in Candidates(haveBuffers, beatsAsec, windowStart, windowEnd) }

(***************************************************************************)
(* mixTracks: tempo match, buildMixGraph, render                           *)
(***************************************************************************)
SampleRate == 44100
RateMin == (98 * FxOne) \div 100
RateMax == (102 * FxOne) \div 100
PRE == 15000
POST == 15000
FullCapMs == 180000      \* 3 min cap of the full render
FullTailMs == 500        \* "+ 0.5" little tail

\* Math.ceil(seconds * sampleRate), seconds given in ms
CeilFrames(ms) == CeilDiv(ms * (SampleRate \div 100), 10)
\* Math.floor(seconds * sampleRate)
FloorFrames(ms) == (ms * (SampleRate \div 100)) \div 10

\* 4) Tempo match B -> A (+-2% clamp)
TempoMatch(bpmA, bpmB) ==
    Min(RateMax, Max(RateMin, (bpmA * FxOne) \div bpmB))

\* (variant that starts B at the planned time, the preview offset forgotten)
BuildMixGraphUnshiftedB(pl, durationB, playbackRateB, timeOffsetSec) ==
    [ playbackRateB |-> playbackRateB,
      fadeStart     |-> Max(0, pl.fadeStart - timeOffsetSec),
      fadeDur       |-> Max(0, pl.fadeDur),
      startA_when   |-> 0,
      startA_offset |-> Max(0, timeOffsetSec),
      startB_when   |-> Max(0, pl.fadeStart),
      startB_offset |-> Max(0, Min(durationB - 50, pl.entryBeatB)) ]

\* buildMixGraph: fade timings and source start times on the render timeline
BuildMixGraph(pl, durationB, playbackRateB, timeOffsetSec) ==
    [ playbackRateB |-> playbackRateB,
      fadeStart     |-> Max(0, pl.fadeStart - timeOffsetSec),
      fadeDur       |-> Max(0, pl.fadeDur),
      startA_when   |-> 0,
      startA_offset |-> Max(0, timeOffsetSec),
      startB_when   |-> Max(0, pl.fadeStart - timeOffsetSec),
      startB_offset |-> Max(0, Min(durationB - 50, pl.entryBeatB)) ]

\* sliceAudioBuffer(buffer, startSec, endSec): length of the slice in frames
SliceAudioBuffer(bufferLength, startMs, endMs) ==
    LET start == Max(0, FloorFrames(startMs))
        end == Min(bufferLength, FloorFrames(endMs))
    IN  Max(0, end - start)

\* the vibes explored: those whose nodes leave the path srcA -> gainA ->
\* destination as built and add no sound at time 0 (riser: its gain starts
\* at 0; pump: automation of gainA from fadeStart on; widen: a panner on B)
Vibes == {"riser", "pump", "widen"}

\* |sample| of bufA at the start offset of srcA, the content of the file
HeadSamples == {FxOne \div 2, FxOne}

\* level of frame 0 of the render: srcA through gainA, whose gain is set to
\* 1 at time 0 (B is silent or at gain 0 there); nothing scales the rendered
\* buffer before it is sliced and encoded
HeadLevel(vibe, headSample) == FxMul(headSample, FxOne)

\* (variant: the 45 s region of the earlier preview)
PreviewRegionDur == PRE + POST + POST
\* windowDur of the preview branch
PreviewWindowDur == PRE + POST

\* preview branch of mixTracks
RenderPreview(pl, durationB, playbackRateB, vibe, headSample) ==
    LET windowStart == Max(0, pl.fadeStart - PRE)
        windowDur == PreviewWindowDur
        ctxLength == CeilFrames(windowDur)
    IN  [ previewOnly |-> TRUE,
          graph |-> BuildMixGraph(pl, durationB, playbackRateB, windowStart),
          timeOffsetSec |-> windowStart,
          ctxLength |-> ctxLength,
          frames |-> SliceAudioBuffer(ctxLength, 0, windowDur),
          vibe |-> vibe,
          head |-> HeadLevel(vibe, headSample) ]

\* full-render branch of mixTracks
RenderFull(pl, durationA, durationB, playbackRateB, vibe, headSample) ==
    LET endA == durationA
        endB == pl.fadeStart
                + (Max(0, durationB - pl.entryBeatB) * FxOne) \div playbackRateB
        fullDuration == Min(FullCapMs, Max(endA, endB) + FullTailMs)
    IN  [ previewOnly |-> FALSE,
          graph |-> BuildMixGraph(pl, durationB, playbackRateB, 0),
          timeOffsetSec |-> 0,
          ctxLength |-> CeilFrames(fullDuration),
          frames |-> CeilFrames(fullDuration),
          vibe |-> vibe,
          head |-> HeadLevel(vibe, headSample) ]

MixIdle ==
    /\ mixPc = "idle" /\ mixIn = None /\ plan = None
    /\ tempo = None /\ render = None

\* mixTracks is called and step 1 (decode both files) has finished
InitMix ==
    /\ mixPc = "decoded"
    /\ mixIn \in [ durationA : DurationsA, durationB : DurationsB,
                   crossfadeSeconds : Crossfades ]
    /\ plan = None
    /\ tempo = None
    /\ render = None

\* steps 2-4 of mixTracks: analyzeTrack on both files, safe BPMs, planSplice
\* (with both buffers), tempo match
AnalyzeAndPlan ==
    /\ mixPc = "decoded"
    /\ \E anaA \in AnalysesA(mixIn.durationA), anaB \in AnalysesB(mixIn.durationB) :
         /\ plan' \in PlanSplice(anaA, anaB, mixIn.durationA,
                                 mixIn.crossfadeSeconds, TRUE)
         /\ tempo' = [ bpmA |-> SafeBpm(anaA.bpm), bpmB |-> SafeBpm(anaB.bpm),
                       playbackRateB |->
                          TempoMatch(SafeBpm(anaA.bpm), SafeBpm(anaB.bpm)) ]
    /\ mixPc' = "planned"
    /\ UNCHANGED <<mixIn, render>>
    /\ UNCHANGED notMix

\* if (previewOnly): fixed 30 s preview, rendered, trimmed and encoded.
\* previewOnly is an argument of the request that is read only here; the
\* two render actions are its two values.
RenderPreviewAction ==
    /\ mixPc = "planned"
    /\ \E vibe \in Vibes, headSample \in HeadSamples :
         render' = RenderPreview(plan, mixIn.durationB, tempo.playbackRateB,
                                 vibe, headSample)
    /\ mixPc' = "rendered"
    /\ UNCHANGED <<mixIn, plan, tempo>>
    /\ UNCHANGED notMix

\* otherwise: full render, encoded
RenderFullAction ==
    /\ mixPc = "planned"
    /\ \E vibe \in Vibes, headSample \in HeadSamples :
         render' = RenderFull(plan, mixIn.durationA, mixIn.durationB,
                              tempo.playbackRateB, vibe, headSample)
    /\ mixPc' = "rendered"
    /\ UNCHANGED <<mixIn, plan, tempo>>
    /\ UNCHANGED notMix

(***************************************************************************)
(* /qa page: analysis results                                              *)
(***************************************************************************)
\* ---- bounds of the explored inputs ----
QaDurShortMs == 13000    \* the track durations tried on the page: shorter
QaDurMidMs == 26000      \* than the 15 s pad, shorter than the 35 s window
QaDurLongMs == 39000     \* end, and longer than it
QaXfLongMs == 4000       \* the long crossfade setting tried (ms)
ClickTrackMs == 30000    \* length of the synthetic click tracks

\* default of the "Crossfade ms" field of the page
QaXfDefaultMs == 90

QaDurations == {QaDurShortMs, QaDurMidMs, QaDurLongMs, ClickTrackMs}
QaSampleRates == {8000}
QaBpmPairs == {<<90, 128>>, <<90, 120>>, <<120, 120>>}
QaCrossfades == {QaXfDefaultMs, QaXfLongMs}

FrameSize == 2048
HopSize == 512
RmsOne == 100            \* rms values are in 1/RmsOne of full scale

\* a function over 1..n as an explicit tuple
AsSeq(f) == f \o <<>>

\* computeFrameRMS: hopSec = hopSize / sr
HopSec(sr) == (HopSize * 1000) \div sr
\* computeFrameRMS: numFrames = max(1, floor((signal.length - frameSize) / hopSize))
NumFrames(duration, sr) ==
    Max(1, (((duration \div 1000) * sr + ((duration % 1000) * sr) \div 1000) - FrameSize)
           \div HopSize)

\* frame RMS of the signal, by content: constant level, or loud and quiet
\* blocks of 24 frames with one frame of transition between them
RmsShapes == {"flat", "blocks"}
FrameRms(shape, n) ==
    CASE shape = "flat" -> AsSeq([i \in 1..n |-> RmsOne \div 2])
      [] shape = "blocks" ->
           AsSeq([i \in 1..n |->
                    IF i > 1 /\ (i - 1) % 24 = 0 THEN RmsOne \div 2
                    ELSE IF ((i - 1) \div 24) % 2 = 0
                         THEN (8 * RmsOne) \div 10 ELSE (2 * RmsOne) \div 10])

\* beat grid of both analyzers: for (t = 0; t < duration; t += 60 / bpm)
QaBeats(duration, bpm) ==
    LET beatSec == 60000 \div Max(1, bpm)
    IN  AsSeq([k \in 1..CeilDiv(duration, beatSec) |-> (k - 1) * beatSec])

\* onsets, by content: none detected, or one on every beat
OnsetShapes == {"none", "onBeats"}
Onsets(shape, beats) == IF shape = "onBeats" THEN beats ELSE <<>>

\* EssentiaAnalysisResult of analyzeBuffer for a buffer of the given duration
\* (duration is kept with it: it is audioBuffer.duration)
QaAnalysis(duration, sr, bpm, rmsShape, onsetShape) ==
    [ duration |-> duration, bpm |-> bpm, sampleRate |-> sr,
      beats |-> QaBeats(duration, bpm),
      onsets |-> Onsets(onsetShape, QaBeats(duration, bpm)),
      rms |-> FrameRms(rmsShape, NumFrames(duration, sr)),
      frameHopSec |-> HopSec(sr) ]

(***************************************************************************)
(* segments.ts                                                             *)
(***************************************************************************)
NoveltyW == 12           \* half window (frames)
Pad == 15000             \* seconds to avoid at both ends

\* estimateBoundaries: nov[i] (0-based frame i), times the rms maximum
\* (x = rms / max is not formed; comparisons are scaled by max instead)
RECURSIVE NoveltySum(_, _, _)
NoveltySum(rms, i, u) ==
    IF u > NoveltyW THEN 0
    ELSE Abs(rms[i - u + 1] - rms[i + (NoveltyW - u + 1) + 1])
         + Abs(rms[i - (NoveltyW - u + 1) + 1] - rms[i + u + 1])
         + NoveltySum(rms, i, u + 1)
Novelty(rms, i) ==
    IF i >= NoveltyW /\ i < Len(rms) - NoveltyW THEN NoveltySum(rms, i, 1) ELSE 0

\* estimateBoundaries(ana).map(b => b.time): peaks of the novelty above 0.15
EstimateBoundaries(ana) ==
    LET rms == ana.rms
        N == Len(rms)
        vals == {rms[k] : k \in 1..N}
        mx == CHOOSE m \in vals : \A v \in vals : v <= m
        nov == AsSeq([k \in 1..N |-> Novelty(rms, k - 1)])
        isPeak(i) == /\ nov[i + 1] > nov[i] /\ nov[i + 1] > nov[i + 2]
                     /\ mx > 0 /\ nov[i + 1] * 100 > 15 * mx
        idx == SelectSeq(AsSeq([k \in 1..Max(0, N - 4) |-> k + 1]), isPeak)
    IN  IF N < 3 THEN <<>>
        ELSE AsSeq([k \in 1..Len(idx) |-> idx[k] * ana.frameHopSec])

\* chooseInteriorRanges
SegLen(ana) ==
    Max(20000, Min(60000, IF Len(ana.beats) > 0
                          THEN (60000 * 16) \div ana.bpm ELSE 32000))

ChooseInteriorRanges(A, B) ==
    LET startA == Max(Pad, (IF Len(A.beats) > 0 THEN A.beats[1] ELSE 0) + Pad)
        endA == Max(Pad + SegLen(A),
                    IF Len(A.beats) > 0
                    THEN A.beats[Len(A.beats)] - Pad
                    ELSE Len(A.rms) * A.frameHopSec - Pad)
        startB == Max(Pad, 0 + Pad)
        endB == Max(Pad + SegLen(B),
                    (IF Len(B.beats) > 0
                     THEN B.beats[Len(B.beats)]
                     ELSE Len(B.rms) * B.frameHopSec) - Pad)
    IN  [ rangeA |-> [ startSec |-> startA,
                       endSec |-> IF endA - startA < 8000 THEN startA + 8000 ELSE endA ],
          rangeB |-> [ startSec |-> startB,
                       endSec |-> IF endB - startB < 8000 THEN startB + 8000 ELSE endB ] ]

\* ana.rms[i] ?? 0 (0-based i)
RmsAt(ana, i) == IF i >= 0 /\ i < Len(ana.rms) THEN ana.rms[i + 1] ELSE 0

RECURSIVE RmsSum(_, _, _)
RmsSum(ana, lo, hi) == IF lo > hi THEN 0 ELSE RmsAt(ana, lo) + RmsSum(ana, lo + 1, hi)

\* isValley(ana, t, halfWinSec = 0.6): rms[f] < 0.85 * local mean
IsValley(ana, t) ==
    LET hop == ana.frameHopSec
        f == RoundDiv(t, hop)
        hw == Max(2, RoundDiv(600, hop))
        lo == Max(0, f - hw)
        hi == Min(Len(ana.rms) - 1, f + hw)
        nb == Max(0, f - lo)
        na == Max(0, hi - f + 1)
        total == RmsSum(ana, lo, f - 1) + RmsSum(ana, f, hi)
    IN  RmsAt(ana, f) * 100 * Max(1, nb + na) < 85 * total

(***************************************************************************)
(* candidates.ts                                                           *)
(***************************************************************************)
CandCap == 120           \* cap of the candidate list
BoundaryPhaseBelow == 32 \* phase 2 runs while fewer candidates than this
BeatPhaseBelow == 64     \* phase 3 runs while fewer candidates than this

\* getDefaultRanges
GetDefaultRanges(a, b) == ChooseInteriorRanges(a, b)

\* list.filter(t => t >= range.startSec && t <= range.endSec)
InRange(list, range) ==
    SelectSeq(list, LAMBDA t : t >= range.startSec /\ t <= range.endSec)

\* near(list, t, tol): list.some(x => |x - t| <= tol)
Near(list, t, tol) == \E k \in 1..Len(list) : Abs(list[k] - t) <= tol

\* the beats flagged by markDownbeats (i % 4 === 0), in order
Downbeats(beats) ==
    AsSeq([k \in 1..CeilDiv(Len(beats), 4) |-> beats[4 * (k - 1) + 1]])

\* beatsB.reduce((best, t) => |t - ta| < |best - ta| ? t : best, beatsB[0] ?? 0):
\* the first beat at the least distance, 0 for an empty list
ClosestBeat(beatsB, ta) ==
    IF Len(beatsB) = 0 THEN 0
    ELSE LET k == CHOOSE k \in 1..Len(beatsB) :
                    /\ \A j \in 1..Len(beatsB) : Abs(beatsB[k] - ta) <= Abs(beatsB[j] - ta)
                    /\ \A j \in 1..(k - 1) : Abs(beatsB[k] - ta) < Abs(beatsB[j] - ta)
         IN  beatsB[k]

\* the (tA, tB) pairs pushed by the three phases, in order, with the phase
\* 1) downbeat x downbeat pairs
DownbeatPairs(beatsA, beatsB) ==
    LET dA == Downbeats(beatsA)
        dB == Downbeats(beatsB)
    IN  AsSeq([ p \in 1..(Len(dA) * Len(dB)) |->
                  [ tA |-> dA[((p - 1) \div Len(dB)) + 1],
                    tB |-> dB[((p - 1) % Len(dB)) + 1], phase |-> 1 ] ])

\* 2) boundary-aligned pairs: each boundary of A with the closest beat of B
BoundaryPairs(beatsB, bndsA) ==
    AsSeq([ p \in 1..Len(bndsA) |->
              [ tA |-> bndsA[p], tB |-> ClosestBeat(beatsB, bndsA[p]), phase |-> 2 ] ])

\* 3) beat x beat pairs after n0 earlier pushes: row by row until the list
\* holds 120; the break leaves the inner loop only, so every later beat of A
\* still pushes its pair with the first beat of B
BeatPairs(beatsA, beatsB, n0) ==
    LET nA == Len(beatsA)
        nB == Len(beatsB)
        room == CandCap - n0
        full == Min(room, nA * nB)
        lastRow == IF full = 0 THEN 0 ELSE ((full - 1) \div nB) + 1
        extra == IF nA * nB >= room THEN nA - lastRow ELSE 0
    IN  IF nA = 0 \/ nB = 0 THEN <<>>
        ELSE AsSeq([ p \in 1..full |->
                       [ tA |-> beatsA[((p - 1) \div nB) + 1],
                         tB |-> beatsB[((p - 1) % nB) + 1], phase |-> 3 ] ])
             \o AsSeq([ q \in 1..extra |->
                          [ tA |-> beatsA[lastRow + q], tB |-> beatsB[1], phase |-> 3 ] ])

\* key of the dedup: `${Math.round(c.tA * 100)}-${Math.round(c.tB * 100)}`
CandKey(c) == <<RoundDiv(c.tA, 10), RoundDiv(c.tB, 10)>>

\* (variant that keeps the last push of every key)
DedupKeepLast(cand) ==
    LET keys == AsSeq([k \in 1..Len(cand) |-> CandKey(cand[k])])
        last == SelectSeq(AsSeq([k \in 1..Len(cand) |-> k]),
                          LAMBDA k : \A j \in (k + 1)..Len(cand) : keys[j] # keys[k])
    IN  AsSeq([k \in 1..Min(CandCap, Len(last)) |-> cand[last[k]]])

\* Dedup & cap: the first push of every key, at most 120 of them
Dedup(cand) ==
    LET keys == AsSeq([k \in 1..Len(cand) |-> CandKey(cand[k])])
        first == SelectSeq(AsSeq([k \in 1..Len(cand) |-> k]),
                           LAMBDA k : \A j \in 1..(k - 1) : keys[j] # keys[k])
    IN  AsSeq([k \in 1..Min(CandCap, Len(first)) |-> cand[first[k]]])

\* the Candidate pushed for a pair; an absent fromBoundaryA / fromBoundaryB
\* (phase 3) is FALSE
Candidate(c, A, B, bndsA, bndsB) ==
    [ tA |-> c.tA, tB |-> c.tB,
      isDownbeatA |-> c.phase = 1, isDownbeatB |-> c.phase = 1,
      isStrongOnsetA |-> Near(A.onsets, c.tA, 60),
      isStrongOnsetB |-> Near(B.onsets, c.tB, 60),
      isValleyA |-> IsValley(A, c.tA), isValleyB |-> IsValley(B, c.tB),
      fromBoundaryA |-> CASE c.phase = 1 -> Near(bndsA, c.tA, 400)
                          [] c.phase = 2 -> TRUE
                          [] OTHER -> FALSE,
      fromBoundaryB |-> c.phase # 3 /\ Near(bndsB, c.tB, 400) ]

\* generateCandidates (crossfadeMs and sampleRate are not read)
GenerateCandidates(A, B, rangeA, rangeB, crossfadeMs) ==
    LET beatsA == InRange(A.beats, rangeA)
        beatsB == InRange(B.beats, rangeB)
        bndsA == InRange(EstimateBoundaries(A), rangeA)
        bndsB == InRange(EstimateBoundaries(B), rangeB)
        c1 == DownbeatPairs(beatsA, beatsB)
        c2 == IF Len(c1) < BoundaryPhaseBelow
              THEN c1 \o BoundaryPairs(beatsB, bndsA) ELSE c1
        c3 == IF Len(c2) < BeatPhaseBelow
              THEN c2 \o BeatPairs(beatsA, beatsB, Len(c2)) ELSE c2
        uniq == Dedup(c3)
    IN  AsSeq([k \in 1..Len(uniq) |-> Candidate(uniq[k], A, B, bndsA, bndsB)])

(***************************************************************************)
(* score.ts                                                                *)
(***************************************************************************)
\* scores are kept in 1/ScoreDen; weights in tenths
ScoreDen == 360000 * 10
DEFAULT_WEIGHTS ==
    [ wDownbeat |-> 12, wEnergy |-> 9, wTempo |-> 6, wOnsetClash |-> 7,
      wValley |-> 6, wBoundary |-> 4, wEdgePenalty |-> 8 ]
XF_SEC == 90             \* assumed crossfade used by preview (ms)
TrendHalfWin == 6
EdgePad == 15000
EdgeTaper == 30000

TimeToFrame(t, hop) == Max(0, RoundDiv(t, hop))

\* localTrend: means before and after frame f, in 1/(60 * RmsOne); rms[i] is
\* read without a default, so a frame past the end makes the mean NaN
LocalTrend(ana, f) ==
    LET N == Len(ana.rms)
        a0 == Max(0, f - TrendHalfWin)
        a1 == Max(0, f - 1)
        b0 == Min(N - 1, f + 1)
        b1 == Min(N - 1, f + TrendHalfWin)
        na == a1 - a0 + 1
        nb == b1 - b0 + 1
    IN  [ nan |-> a1 > N - 1,
          before |-> (RmsSum(ana, a0, a1) * 60) \div na,
          after |-> IF nb > 0 THEN (RmsSum(ana, b0, b1) * 60) \div nb ELSE 0 ]

OnsetCount(on, t0, t1) == Cardinality({k \in 1..Len(on) : on[k] >= t0 /\ on[k] <= t1})

\* edgePenalty, in 1/EdgeTaper
EdgePenalty(t, dur) ==
    Min(EdgeTaper, Max(Max(0, EdgePad - t), Max(0, EdgePad - (dur - t))))

\* the duration scoreCandidates takes for a track
ScoreDur(ana) ==
    IF Len(ana.beats) > 0 THEN ana.beats[Len(ana.beats)]
    ELSE Len(ana.rms) * ana.frameHopSec

\* (variant that reports the tempo difference itself)
STempoDiff(A, B) ==
    (Min(Max(1, A.bpm), Abs(A.bpm - B.bpm)) * FxOne) \div Max(1, A.bpm)
\* sTempo = 1 - min(1, |A.bpm - B.bpm| / max(1, A.bpm)), in 1/FxOne
STempo(A, B) ==
    ((Max(1, A.bpm) - Min(Max(1, A.bpm), Abs(A.bpm - B.bpm))) * FxOne)
        \div Max(1, A.bpm)

\* the subscores and the score of one candidate
Score(c, A, B, w) ==
    LET unit == ScoreDen \div 10
        sDownbeat == IF c.isDownbeatA /\ c.isDownbeatB THEN 1 ELSE 0
        a == LocalTrend(A, TimeToFrame(c.tA, A.frameHopSec))
        b == LocalTrend(B, TimeToFrame(c.tB, B.frameHopSec))
        aValley == Max(0, a.before - a.after)
        bRise == Max(0, b.after - b.before)
        bpmA == Max(1, A.bpm)
        sTempoNum == bpmA - Min(bpmA, Abs(A.bpm - B.bpm))
        clash == Min(4, OnsetCount(A.onsets, c.tA - XF_SEC, c.tA + XF_SEC)
                        + OnsetCount(B.onsets, c.tB - XF_SEC, c.tB + XF_SEC))
        sValley == (IF c.isValleyA THEN 1 ELSE 0) + (IF c.isValleyB THEN 1 ELSE 0)
        sBoundary == (IF c.fromBoundaryA THEN 1 ELSE 0) + (IF c.fromBoundaryB THEN 1 ELSE 0)
        penEdge == EdgePenalty(c.tA, ScoreDur(A)) + EdgePenalty(c.tB, ScoreDur(B))
    IN  [ scoreNaN |-> a.nan \/ b.nan,
          sTempo |-> STempo(A, B),
          clash |-> clash,
          score |-> IF a.nan \/ b.nan THEN 0
                    ELSE w.wDownbeat * sDownbeat * unit
                         + w.wEnergy * (aValley + bRise) * (unit \div (2 * 60 * RmsOne))
                         + (w.wTempo * sTempoNum * unit) \div bpmA
                         + (w.wValley * sValley * unit) \div 2
                         + (w.wBoundary * sBoundary * unit) \div 2
                         - (w.wOnsetClash * clash * unit) \div 4
                         - w.wEdgePenalty * penEdge * (unit \div (2 * EdgeTaper)) ]

\* out.sort((x, y) => y.score - x.score): stable, by descending score; a NaN
\* score makes the comparator return NaN for every pair it is in, and the
\* order is then up to the engine: nanRank says where such entries land
\* (above or below every number)
SortByScore(out, nanHigh) ==
    LET n == Len(out)
        key == AsSeq([k \in 1..n |->
                        IF out[k].scoreNaN
                        THEN (IF nanHigh THEN 8 * ScoreDen ELSE -8 * ScoreDen)
                        ELSE out[k].score])
        rank == AsSeq([k \in 1..n |->
                         Cardinality({j \in 1..n : \/ key[j] > key[k]
                                                   \/ key[j] = key[k] /\ j < k}) + 1])
    IN  AsSeq([p \in 1..n |-> out[CHOOSE k \in 1..n : rank[k] = p]])

\* scoreCandidates: the lists the call can return
ScoreCandidates(candidates, A, B, w) ==
    LET out == AsSeq([k \in 1..Len(candidates) |->
                        LET s == Score(candidates[k], A, B, w)
                        IN  [ tA |-> candidates[k].tA, tB |-> candidates[k].tB,
                              isDownbeatA |-> candidates[k].isDownbeatA,
                              isDownbeatB |-> candidates[k].isDownbeatB,
                              isStrongOnsetA |-> candidates[k].isStrongOnsetA,
                              isStrongOnsetB |-> candidates[k].isStrongOnsetB,
                              isValleyA |-> candidates[k].isValleyA,
                              isValleyB |-> candidates[k].isValleyB,
                              fromBoundaryA |-> candidates[k].fromBoundaryA,
                              fromBoundaryB |-> candidates[k].fromBoundaryB,
                              score |-> s.score, scoreNaN |-> s.scoreNaN,
                              sTempo |-> s.sTempo, clash |-> s.clash ] ])
    IN  IF \E k \in 1..Len(out) : out[k].scoreNaN
        THEN {SortByScore(out, TRUE), SortByScore(out, FALSE)}
        ELSE {SortByScore(out, FALSE)}

(***************************************************************************)
(* /qa page: computeBestSplice, candidate list, onRender,                  *)
(* renderTwoBarPreview                                                     *)
(***************************************************************************)
\* defaults of the BPM and Bars fields of the page
QaUiBpm == 120
QaUiBars == 2
\* candidates.slice(0, 12) are listed
ListedCandidates == 12

\* onRender: the beat-match ratio handed to renderTwoBarPreview
\* (<<>> is undefined)
BeatmatchRatio(beatmatch, A, B) ==
    IF beatmatch
    THEN <<IF A.bpm > 0 THEN (B.bpm * FxOne) \div A.bpm ELSE FxOne>>
    ELSE <<>>

\* renderTwoBarPreview: timeline math, splice positions, playback rate of sB
RenderTwoBarPreview(durA, durB, bpm, bars, crossfadeMs, spliceTA, spliceTB, beatmatchRatio) ==
    LET secPerBar == (60000 \div Max(1, bpm)) * 4
        segSec == Max(500, bars * secPerBar)
        xfSec == Max(10, crossfadeMs)
        T_overlap == Max(0, segSec - xfSec)
        ctxDur == segSec + (segSec - xfSec)
        tA == Clamp(spliceTA, 0, Max(0, durA - xfSec))
        tB == Clamp(spliceTB, 0, Max(0, durB - xfSec))
        aOffset == Clamp(tA - T_overlap, 0, Max(0, durA - xfSec))
        bOffset == Clamp(tB, 0, Max(0, durB - xfSec))
        rateB == IF beatmatchRatio # <<>> /\ beatmatchRatio[1] > 0
                 THEN beatmatchRatio[1] ELSE FxOne
    IN  [ playbackRateB |-> rateB,
          usedTA |-> tA, usedTB |-> tB,
          aOffset |-> aOffset, bOffset |-> bOffset,
          startB_when |-> T_overlap,
          contextSeconds |-> ctxDur, overlapSeconds |-> xfSec ]

QAIdle ==
    /\ qaPc = "idle" /\ qaIn = None /\ ranges = None
    /\ cands = <<>> /\ selected = 0 /\ qaRender = None

\* both files are picked and analyzed (analysisA, analysisB set), the
\* crossfade field and the beat-match toggle are as the user left them
InitQA ==
    /\ qaPc = "analyzed"
    /\ \E dA \in QaDurations, dB \in QaDurations, sr \in QaSampleRates,
          bpms \in QaBpmPairs, rA \in RmsShapes, rB \in RmsShapes,
          os \in OnsetShapes, x \in QaCrossfades, bm \in BOOLEAN :
         qaIn = [ analysisA |-> QaAnalysis(dA, sr, bpms[1], rA, os),
                  analysisB |-> QaAnalysis(dB, sr, bpms[2], rB, os),
                  xf |-> x, beatmatch |-> bm ]
    /\ ranges = None
    /\ cands = <<>>
    /\ selected = 0
    /\ qaRender = None

\* computeBestSplice: getDefaultRanges, generateCandidates, scoreCandidates,
\* setCandidates(scored), setSelectedCandidate(scored[0] || null)
ComputeBestSplice ==
    /\ qaPc = "analyzed"
    /\ LET r == GetDefaultRanges(qaIn.analysisA, qaIn.analysisB)
           candidateList == GenerateCandidates(qaIn.analysisA, qaIn.analysisB,
                                               r.rangeA, r.rangeB, qaIn.xf)
       IN  /\ ranges' = r
           /\ cands' \in ScoreCandidates(candidateList, qaIn.analysisA,
                                         qaIn.analysisB, DEFAULT_WEIGHTS)
    /\ selected' = IF Len(cands') > 0 THEN 1 ELSE 0
    /\ qaPc' = "computed"
    /\ UNCHANGED <<qaIn, qaRender>>
    /\ UNCHANGED notQA

\* a click on one of the listed candidates: setSelectedCandidate(c)
SelectCandidate ==
    /\ qaPc = "computed"
    /\ \E k \in 1..Min(ListedCandidates, Len(cands)) :
         /\ k # selected
         /\ selected' = k
    /\ UNCHANGED <<qaPc, qaIn, ranges, cands, qaRender>>
    /\ UNCHANGED notQA

\* onRender: candidate = selectedCandidate || candidates[0]; without one it
\* only sets the status
OnRender ==
    /\ qaPc = "computed"
    /\ Len(cands) > 0
    /\ LET candidate == IF selected > 0 THEN cands[selected] ELSE cands[1]
       IN  qaRender' = RenderTwoBarPreview(
                          qaIn.analysisA.duration, qaIn.analysisB.duration,
                          QaUiBpm, QaUiBars, qaIn.xf, candidate.tA, candidate.tB,
                          BeatmatchRatio(qaIn.beatmatch, qaIn.analysisA, qaIn.analysisB))
    /\ qaPc' = "rendered"
    /\ UNCHANGED <<qaIn, ranges, cands, selected>>
    /\ UNCHANGED notQA

(***************************************************************************)
(* audioBufferToWav: 16-bit PCM encoding, and decoding of the file         *)
(***************************************************************************)
\* ---- bounds of the explored buffers ----
SampleDen == 1000        \* samples are multiples of 1 / SampleDen
MaxWavFrames == 2        \* buffer.length in 0 .. MaxWavFrames

WavHeaderBytes == 44
Int16Neg == 32768        \* 0x8000
Int16Pos == 32767        \* 0x7fff
PcmScale == Int16Neg     \* a decoder's value / 32768

\* sample values in [-1, 1], in units of 1 / SampleDen
SampleValues ==
    {-SampleDen, -(SampleDen \div 3), 0, 1, SampleDen \div 2, SampleDen - 1,
     SampleDen}
WavChannels == {1, 2}
WavBuffers ==
    UNION { [ numberOfChannels : {c}, length : {n},
              channels : [1..c -> [1..n -> SampleValues]] ] :
            <<c, n>> \in WavChannels \X (0..MaxWavFrames) }

\* ToInt16 of DataView.setInt16 on num / den: truncation toward zero, then
\* reduction modulo 2^16 into [-32768, 32767]
ToInt16(num, den) ==
    LET t == IF num >= 0 THEN num \div den ELSE -((-num) \div den)
        m == t % 65536
    IN  IF m >= 32768 THEN m - 65536 ELSE m

\* the word written for one sample:
\* s = clamp(sample, -1, 1); setInt16(pos, s < 0 ? s * 0x8000 : s * 0x7fff)
EncodeSample(sample) ==
    LET s == Max(-SampleDen, Min(SampleDen, sample))
    IN  IF s < 0 THEN ToInt16(s * Int16Neg, SampleDen)
        ELSE ToInt16(s * Int16Pos, SampleDen)

\* length = buffer.length * numOfChan * 2 + 44 and the header fields
WavHeader(buffer) ==
    [ totalSize |-> buffer.length * buffer.numberOfChannels * 2 + WavHeaderBytes,
      numChannels |-> buffer.numberOfChannels,
      blockAlign |-> buffer.numberOfChannels * 2,
      bitsPerSample |-> 16,
      dataSize |-> buffer.length * buffer.numberOfChannels * 2 ]

\* a PCM decoder: frame and channel counts from the header, value / 32768
\* per word; samples are returned in units of 1 / (SampleDen * PcmScale)
DecodeWav(file) ==
    LET c == file.header.numChannels
        n == IF file.header.blockAlign = 0 THEN 0
             ELSE file.header.dataSize \div file.header.blockAlign
    IN  [ numberOfChannels |-> c, length |-> n,
          channels |-> [ch \in 1..c |->
                          [i \in 1..n |-> file.data[(i - 1) * c + ch] * SampleDen]] ]

WavIdle ==
    /\ wavPc = "idle" /\ wavBuf = None /\ wavFile = None /\ wavOut = None

\* audioBufferToWav has written the header of the file
InitWav ==
    /\ wavPc = "encoding"
    /\ wavBuf \in WavBuffers
    /\ wavFile = [header |-> WavHeader(wavBuf), data |-> <<>>]
    /\ wavOut = None

\* one pass of the frame loop: one word per channel, interleaved
WriteFrame ==
    /\ wavPc = "encoding"
    /\ WavHeaderBytes + 2 * Len(wavFile.data) < wavFile.header.totalSize
    /\ LET offset == Len(wavFile.data) \div wavBuf.numberOfChannels + 1
           words == [c \in 1..wavBuf.numberOfChannels |->
                        EncodeSample(wavBuf.channels[c][offset])]
       IN  wavFile' = [wavFile EXCEPT !.data = @ \o words]
    /\ UNCHANGED <<wavPc, wavBuf, wavOut>>
    /\ UNCHANGED notWav

\* the finished file is read back
ReadBack ==
    /\ wavPc = "encoding"
    /\ WavHeaderBytes + 2 * Len(wavFile.data) >= wavFile.header.totalSize
    /\ wavOut' = DecodeWav(wavFile)
    /\ wavPc' = "decoded"
    /\ UNCHANGED <<wavBuf, wavFile>>
    /\ UNCHANGED notWav

(***************************************************************************)
(* analyzeFallback: onset envelope and BPM by autocorrelation              *)
(***************************************************************************)
\* ---- bounds of the explored signals; RMS values are in units of 1e-10 ----
FbFrames == 32           \* number of RMS frames of the signal
FbHopMs == 64            \* hopSec: 512 / 8000 Hz
FbTinyPulse == 2         \* pulse heights of the RMS: below the envelope floor
FbPulse == 25            \* ... and above it
FbMaxGain == 6           \* largest gain factor applied to the signal
FbMinPeriod == 5         \* pulse periods tried, in frames
FbMaxPeriod == 9

MaxEnvFloor == 10        \* let maxEnv = 1e-9
MinBPM == 60
MaxBPM == 180

FbPeriods == FbMinPeriod..FbMaxPeriod
FbHeights == {FbTinyPulse, FbPulse}
FbBases == {0, 1}
FbGains == 2..FbMaxGain
\* frame RMS of a signal with a pulse every period frames, 0-based frame i
FbRms(period, height, base) ==
    AsSeq([k \in 1..FbFrames |->
             IF (k - 1) % period = 1 THEN base + height
             ELSE IF (k - 1) % period = 2 THEN base + height \div 2
             ELSE base])
\* frame RMS of the signal scaled by g
ScaleRms(rms, g) == AsSeq([k \in 1..Len(rms) |-> g * rms[k]])

\* onsetEnv[0] = 0; onsetEnv[i] = max(0, rms[i] - rms[i - 1])
OnsetEnv(rms) ==
    AsSeq([k \in 1..Len(rms) |->
             IF k = 1 THEN 0 ELSE Max(0, rms[k] - rms[k - 1])])
\* (variant without the 1e-9 floor)
MaxEnvUnfloored(env) ==
    IF Len(env) = 0 THEN 0
    ELSE CHOOSE v \in {env[k] : k \in 1..Len(env)} :
            \A k \in 1..Len(env) : env[k] <= v
\* let maxEnv = 1e-9; for (...) if (onsetEnv[i] > maxEnv) maxEnv = onsetEnv[i]
MaxEnv(env) ==
    LET vals == {env[k] : k \in 1..Len(env)} \cup {MaxEnvFloor}
    IN  CHOOSE v \in vals : \A u \in vals : u <= v
\* onsetEnv[i] /= maxEnv: the envelope as numerators over the denominator
NormalisedEnv(rms) ==
    LET env == OnsetEnv(rms) IN [num |-> env, den |-> MaxEnv(env)]

\* acc of one lag, times (n * den)^2: sum of z[i] * z[i - lag] with
\* z[i] = env[i] - mean and mean = sum / max(1, n)
RECURSIVE AccFrom(_, _, _, _)
AccFrom(z, lag, i, acc) ==
    IF i > Len(z) THEN acc
    ELSE AccFrom(z, lag, i + 1, acc + z[i] * z[i - lag])
\* estimateBPMFromEnvelope, in 1/1000 BPM
EstimateBPMFromEnvelope(env, hopMs, minBPM, maxBPM) ==
    LET n == Len(env.num)
        minLag == (60000 \div maxBPM) \div hopMs
        maxLag == (60000 \div minBPM) \div hopMs
        total == SumSeq(env.num)
        z == AsSeq([k \in 1..n |-> Max(1, n) * env.num[k] - total])
        acc == AsSeq([l \in 1..maxLag |-> AccFrom(z, l, l + 1, 0)])
        lags == minLag..maxLag
        bestLag == IF lags = {} THEN minLag
                   ELSE CHOOSE l \in lags :
                           /\ \A m \in lags : acc[m] <= acc[l]
                           /\ \A m \in lags : m < l => acc[m] < acc[l]
    IN  IF bestLag = 0 THEN MaxBPM * 1000
        ELSE Max(MinBPM * 1000,
                 Min(MaxBPM * 1000, (60000 * 1000) \div (bestLag * hopMs)))

FbIdle ==
    /\ fbPc = "idle" /\ fbIn = None /\ fbEnv = None /\ fbBpm = None

\* computeFrameRMS has run on the signal and on the signal scaled by gain
InitFb ==
    /\ fbPc = "rms"
    /\ \E p \in FbPeriods, h \in FbHeights, b \in FbBases, g \in FbGains :
         fbIn = [ rms |-> FbRms(p, h, b), gain |-> g, hopMs |-> FbHopMs,
                  scaledRms |-> ScaleRms(FbRms(p, h, b), g) ]
    /\ fbEnv = None
    /\ fbBpm = None

\* onset envelope of both runs and its normalisation
OnsetEnvelope ==
    /\ fbPc = "rms"
    /\ fbEnv' = [ plain |-> NormalisedEnv(fbIn.rms),
                  scaled |-> NormalisedEnv(fbIn.scaledRms) ]
    /\ fbPc' = "envelope"
    /\ UNCHANGED <<fbIn, fbBpm>>
    /\ UNCHANGED notFb

\* BPM via autocorrelation (60..180 BPM) of both runs
EstimateBpm ==
    /\ fbPc = "envelope"
    /\ fbBpm' = [ plain |-> EstimateBPMFromEnvelope(fbEnv.plain, fbIn.hopMs,
                                                    MinBPM, MaxBPM),
                  scaled |-> EstimateBPMFromEnvelope(fbEnv.scaled, fbIn.hopMs,
                                                     MinBPM, MaxBPM) ]
    /\ fbPc' = "done"
    /\ UNCHANGED <<fbIn, fbEnv>>
    /\ UNCHANGED notFb

(***************************************************************************)
(* essentiaClient: loadEssentia and concurrent analyzeBuffer calls         *)
(***************************************************************************)
\* the analyzeBuffer calls of the page: one per track
Calls == {"A", "B"}
\* what loading the CDN scripts does: both globals appear, a script fails
\* to load (tryLoadEssentiaFromCDN returns false), or the attempt throws
CdnOutcomes == {"ok", "missing", "throws"}

\* backend after the load has settled
BackendOf(cdn) == IF cdn = "ok" THEN "essentia" ELSE "fallback"
\* (variant in which an error of analyzeWithEssentia leaves analyzeBuffer)
SettleUncaught(throws) == IF throws THEN "rejected" ELSE "essentia"
\* try { return await analyzeWithEssentia(b) } catch { } return analyzeFallback(b)
Settle(throws) == IF throws THEN "fallback" ELSE "essentia"

AbIdle ==
    /\ loaded = FALSE /\ loading = FALSE /\ lastError = "undefined"
    /\ backend = "null" /\ abPc = None /\ abResult = None /\ abEnv = None

\* module state as declared; no call has been made yet
InitAb ==
    /\ loaded = FALSE /\ loading = FALSE /\ lastError = "undefined"
    /\ backend = "null"
    /\ abPc = [p \in Calls |-> "idle"]
    /\ abResult = [p \in Calls |-> "pending"]
    /\ abEnv \in [cdn : CdnOutcomes, essentiaThrows : [Calls -> BOOLEAN]]

\* (variant of the guard that looks at loaded only)
LoadedOnly == loaded
\* if (loaded || loading) return;
LoadedOrLoading == loaded \/ loading

\* analyzeBuffer(b) is called: loadEssentia runs up to its first await
CallAnalyzeBuffer(p) ==
    /\ abPc[p] = "idle"
    /\ IF LoadedOrLoading
       THEN /\ abPc' = [abPc EXCEPT ![p] = "afterLoad"]
            /\ UNCHANGED <<loading, lastError, backend>>
       ELSE /\ loading' = TRUE
            /\ lastError' = "undefined"
            /\ backend' = "null"
            /\ abPc' = [abPc EXCEPT ![p] = "loading"]
    /\ UNCHANGED <<loaded, abResult, abEnv>>
    /\ UNCHANGED notAb

\* tryLoadEssentiaFromCDN settles; catch and finally of loadEssentia
LoadSettles(p) ==
    /\ abPc[p] = "loading"
    /\ backend' = BackendOf(abEnv.cdn)
    /\ lastError' = IF abEnv.cdn = "throws" THEN "load" ELSE lastError
    /\ loaded' = TRUE
    /\ loading' = FALSE
    /\ abPc' = [abPc EXCEPT ![p] = "afterLoad"]
    /\ UNCHANGED <<abResult, abEnv>>
    /\ UNCHANGED notAb

\* after await loadEssentia(): if (backend === "essentia") ... else fallback
Dispatch(p) ==
    /\ abPc[p] = "afterLoad"
    /\ IF backend = "essentia"
       THEN /\ abPc' = [abPc EXCEPT ![p] = "essentia"]
            /\ UNCHANGED abResult
       ELSE /\ abPc' = [abPc EXCEPT ![p] = "done"]
            /\ abResult' = [abResult EXCEPT ![p] = "fallback"]
    /\ UNCHANGED <<loaded, loading, lastError, backend, abEnv>>
    /\ UNCHANGED notAb

\* analyzeWithEssentia returns or throws
EssentiaSettles(p) ==
    /\ abPc[p] = "essentia"
    /\ abResult' = [abResult EXCEPT ![p] = Settle(abEnv.essentiaThrows[p])]
    /\ lastError' = IF abEnv.essentiaThrows[p] THEN "analysis" ELSE lastError
    /\ abPc' = [abPc EXCEPT ![p] = "done"]
    /\ UNCHANGED <<loaded, loading, backend, abEnv>>
    /\ UNCHANGED notAb

(***************************************************************************)
(* Main page: handlePreview and handleMixAndDownload                       *)
(***************************************************************************)
MaxUrls == 2             \* object URLs created for previews
PageVibes == {"dreamy", "riser"}
PageBlends == {"equalPower", "cut"}
PageCrossfades == {8, 12}
PageSettings == [vibe : PageVibes, blend : PageBlends, crossfade : PageCrossfades]
\* what mixTracks can throw: an Error with a message, or some other value
ThrownValues == {[isError |-> TRUE, message |-> "decode failed"],
                 [isError |-> FALSE, message |-> "none"]}

canPreview == files.A /\ files.B /\ ~isProcessing
canDownload == previewUrl # 0 /\ ~isProcessing

\* (variant whose catch block records nothing)
CatchErrorSilent(e, fallbackText) == "null"
\* setError(e instanceof Error ? e.message : fallbackText)
CatchError(e, fallbackText) == IF e.isError THEN e.message ELSE fallbackText

PageIdle ==
    /\ files = None /\ settings = None /\ isProcessing = FALSE
    /\ error = "null" /\ previewUrl = 0 /\ playbackState = "idle"
    /\ handler = None

\* the useState defaults
InitPage ==
    /\ files = [A |-> FALSE, B |-> FALSE]
    /\ settings = [vibe |-> "dreamy", blend |-> "equalPower", crossfade |-> 8]
    /\ isProcessing = FALSE
    /\ error = "null"
    /\ previewUrl = 0
    /\ playbackState = "idle"
    /\ handler = [pc |-> "idle", before |-> 0, last |-> "none", urls |-> 0]

\* the file inputs and their Remove buttons (enabled at any time)
SetFile ==
    /\ \E t \in {"A", "B"}, present \in BOOLEAN :
          files' = [files EXCEPT ![t] = present]
    /\ UNCHANGED <<settings, isProcessing, error, previewUrl, playbackState,
                   handler>>
    /\ UNCHANGED notPage

\* the vibe, blend and crossfade controls (enabled at any time)
SetSettings ==
    /\ \E st \in PageSettings : settings' = st
    /\ UNCHANGED <<files, isProcessing, error, previewUrl, playbackState,
                   handler>>
    /\ UNCHANGED notPage

\* handlePreview up to await mixTracks(...)
HandlePreview ==
    /\ canPreview
    /\ handler.pc = "idle"
    /\ handler.urls < MaxUrls
    /\ error' = "null"
    /\ isProcessing' = TRUE
    /\ playbackState' = "loading"
    /\ handler' = [handler EXCEPT !.pc = "preview", !.before = previewUrl,
                                  !.last = "none"]
    /\ UNCHANGED <<files, settings, previewUrl>>
    /\ UNCHANGED notPage

\* mixTracks resolved: the try block and finally of handlePreview
PreviewResolves ==
    /\ handler.pc = "preview"
    /\ previewUrl' = handler.urls + 1
    /\ playbackState' = "ready"
    /\ isProcessing' = FALSE
    /\ handler' = [handler EXCEPT !.pc = "idle", !.last = "ok",
                                  !.urls = handler.urls + 1]
    /\ UNCHANGED <<files, settings, error>>
    /\ UNCHANGED notPage

\* mixTracks rejected: catch and finally of handlePreview
PreviewRejects ==
    /\ handler.pc = "preview"
    /\ \E e \in ThrownValues : error' = CatchError(e, "Preview failed")
    /\ playbackState' = "idle"
    /\ isProcessing' = FALSE
    /\ handler' = [handler EXCEPT !.pc = "idle", !.last = "failed"]
    /\ UNCHANGED <<files, settings, previewUrl>>
    /\ UNCHANGED notPage

\* handleMixAndDownload up to await mixTracks(...)
HandleMixAndDownload ==
    /\ canDownload
    /\ handler.pc = "idle"
    /\ files.A /\ files.B
    /\ error' = "null"
    /\ isProcessing' = TRUE
    /\ handler' = [handler EXCEPT !.pc = "download", !.before = previewUrl,
                                  !.last = "none"]
    /\ UNCHANGED <<files, settings, previewUrl, playbackState>>
    /\ UNCHANGED notPage

\* mixTracks resolved: the file is downloaded, its URL revoked
DownloadResolves ==
    /\ handler.pc = "download"
    /\ isProcessing' = FALSE
    /\ handler' = [handler EXCEPT !.pc = "idle", !.last = "ok"]
    /\ UNCHANGED <<files, settings, error, previewUrl, playbackState>>
    /\ UNCHANGED notPage

\* mixTracks rejected: catch and finally of handleMixAndDownload
DownloadRejects ==
    /\ handler.pc = "download"
    /\ \E e \in ThrownValues : error' = CatchError(e, "Mix failed")
    /\ isProcessing' = FALSE
    /\ handler' = [handler EXCEPT !.pc = "idle", !.last = "failed"]
    /\ UNCHANGED <<files, settings, previewUrl, playbackState>>
    /\ UNCHANGED notPage

(***************************************************************************)
(* buildMixGraph + render: repeated calls with the same arguments          *)
(***************************************************************************)
MaxRenders == 2          \* calls made with the same arguments
RiserFrames == 2         \* frames of the noise buffer that are followed
RiserPeakGain == 7000    \* linearRampToValueAtTime(0.7, ...)
\* type Vibe of buildMixGraph: the closed effect set
AllVibes == {"dreamy", "chaotic", "echoTag", "tapeStop", "beatRoll",
             "riser", "pump", "widen"}
\* values Math.random() can return, in [0, 1)
RandomValues == {FxOne \div 2, (3 * FxOne) \div 4}
GraphPlans == {[fadeStart |-> 20000, fadeDur |-> 8000, entryBeatB |-> 0],
               [fadeStart |-> 300, fadeDur |-> 0, entryBeatB |-> 480]}
GraphOffsets == {0, 5000}

\* applyRiserNoise: ch[i] = Math.random() * 2 - 1, played through a gain
\* that ramps linearly from 0 to 0.7 at the end of the fade; random[i] is
\* the i-th value drawn. The result is the noise added to the destination.
ApplyRiserNoise(random) ==
    [i \in 1..RiserFrames |->
        FxMul((RiserPeakGain * i) \div RiserFrames, random[i] * 2 - FxOne)]

\* the other effects create no source of their own
NoNoise == [i \in 1..RiserFrames |-> 0]

GraphIdle == graphIn = None /\ rendered = <<>>

\* the arguments of the calls: decoded buffers (their duration), plan,
\* playback rate, vibe, blend mode and time offset (0 for the full render,
\* the window start for the preview)
InitGraph ==
    /\ graphIn \in
         { g \in [ plan : GraphPlans, durationB : {DurBShortMs},
                   playbackRateB : {FxOne}, vibe : AllVibes,
                   blendMode : {"equalPower", "cut"},
                   timeOffsetSec : GraphOffsets ] :
             g.timeOffsetSec \in {0, Max(0, g.plan.fadeStart - PRE)} }
    /\ rendered = <<>>

\* buildMixGraph(ctx, bufA, bufB, plan, rate, vibe, bpmA, blend, offset)
\* followed by ctx.startRendering(), on a fresh context
BuildAndRender ==
    /\ graphIn # None
    /\ Len(rendered) < MaxRenders
    /\ \E random \in [1..RiserFrames -> RandomValues] :
         rendered' = Append(rendered,
            [ graph |-> BuildMixGraph(graphIn.plan, graphIn.durationB,
                            graphIn.playbackRateB, graphIn.timeOffsetSec),
              blendMode |-> graphIn.blendMode,
              vibe |-> graphIn.vibe,
              noise |-> IF graphIn.vibe = "riser"
                        THEN ApplyRiserNoise(random) ELSE NoNoise ])
    /\ UNCHANGED graphIn
    /\ UNCHANGED notGraph

(***************************************************************************)
(* planSplice called on its own, degenerate arguments included             *)
(***************************************************************************)
PlanDurTinyMs == 2000    \* durations of A tried besides 0 and 4 * DurStepMs
PlanDurShortMs == 10000
PlanXfNegMs == 1000      \* the negative crossfades tried: -PlanXfNegMs and
PlanXfFarNegMs == 20000  \* -PlanXfFarNegMs

PlanDurations == {0, PlanDurTinyMs, PlanDurShortMs, 4 * DurStepMs}
PlanCrossfades == {0 - PlanXfFarNegMs, 0 - PlanXfNegMs, 0, XfMinMs,
                   XfMinMs + XfSteps * XfStepMs}

CallIdle == callIn = None /\ callOut = None

\* planSplice(analysisA, analysisB, durationA, crossfadeSeconds, bufA?, bufB?)
\* is called
InitPlan ==
    /\ \E d \in PlanDurations, x \in PlanCrossfades, hb \in BOOLEAN :
         \E anaA \in AnalysesA(d), anaB \in AnalysesB(DurBShortMs) :
            callIn = [fn |-> "planSplice", analysisA |-> anaA,
                      analysisB |-> anaB, durationA |-> d,
                      crossfadeSeconds |-> x, haveBufs |-> hb]
    /\ callOut = None

\* planSplice returns { fadeStart, fadeDur, entryBeatB }
PlanSpliceReturns ==
    /\ callIn # None /\ callIn.fn = "planSplice"
    /\ callOut = None
    /\ callOut' \in PlanSplice(callIn.analysisA, callIn.analysisB,
                               callIn.durationA, callIn.crossfadeSeconds,
                               callIn.haveBufs)
    /\ UNCHANGED callIn
    /\ UNCHANGED notCall

(***************************************************************************)
(* dropDetect.findPrimaryDrop and transitions.beatDropTransition           *)
(***************************************************************************)
DropFramesB == 500       \* frames of the analysis of B (64 ms apart)
DropEarlyFrame == 156    \* frame of the drop of B: early in the track,
DropLateFrame == 390     \* or late
DropDurAShortMs == 40000 \* durations of A tried
DropDurALongMs == 200000

RegionMs == 45000        \* regionDur of a preview, and the least full one
RegionPadMs == 20000     \* crossfadeSec + 20
OffsetAMin == 30000      \* Math.max(30, ...)

\* largest and smallest of s[lo..hi], by halves
RECURSIVE MaxRange(_, _, _)
MaxRange(s, lo, hi) ==
    IF lo = hi THEN s[lo]
    ELSE LET mid == (lo + hi) \div 2
         IN  Max(MaxRange(s, lo, mid), MaxRange(s, mid + 1, hi))
RECURSIVE MinRange(_, _, _)
MinRange(s, lo, hi) ==
    IF lo = hi THEN s[lo]
    ELSE LET mid == (lo + hi) \div 2
         IN  Min(MinRange(s, lo, mid), MinRange(s, mid + 1, hi))

\* smooth(arr, w): centered moving average, the window cut at both ends
Smooth(arr, w) ==
    LET n == Len(arr)
        hw == Max(1, w \div 2)
    IN  AsSeq([i \in 1..n |->
            LET lo == Max(1, i - hw)
                hi == Min(n, i + hw)
            IN  SumRange(arr, lo, hi) \div (hi - lo + 1)])

\* normalize(arr): (arr[i] - min) / max(1e-9, max - min), in units of 1/FxOne
Normalize(arr) ==
    IF Len(arr) = 0 THEN <<>>
    ELSE LET mn == MinRange(arr, 1, Len(arr))
             mx == MaxRange(arr, 1, Len(arr))
             span == Max(1, mx - mn)
         IN  AsSeq([i \in 1..Len(arr) |-> ((arr[i] - mn) * FxOne) \div span])

\* rise[i] = max(0, rmsSm[i] - mean of the backFrames values before i)
Rise(rmsSm, backFrames) ==
    AsSeq([i \in 1..Len(rmsSm) |->
        LET lo == Max(1, i - backFrames)
            prevAvg == IF i = 1 THEN rmsSm[i]
                       ELSE SumRange(rmsSm, lo, i - 1) \div (i - lo)
        IN  Max(0, rmsSm[i] - prevAvg)])

\* findPrimaryDrop(analysis): the time (ms) of the best flux peak between
\* 15 % and 85 % of the track, snapped to the beat grid; indices are 0-based
\* as in the source
FindPrimaryDrop(analysis) ==
    IF Len(analysis.spectralFlux) = 0 \/ Len(analysis.timesSec) = 0 THEN 0
    ELSE
    LET fluxSm == Normalize(Smooth(analysis.spectralFlux, 7))
        rmsSm == Normalize(Smooth(analysis.rms, 21))
        backFrames == Max(1, RoundDiv(2000, analysis.frameDurationSec))
        riseN == Normalize(Rise(rmsSm, backFrames))
        n == Len(fluxSm)
        lo == (15 * n) \div 100
        hi == (85 * n) \div 100
        score(i) == (6 * fluxSm[i + 1] + 4 * riseN[i + 1]) \div 10
        peaks == {i \in (lo + 1)..(hi - 2) :
                     /\ fluxSm[i + 1] > fluxSm[i]
                     /\ fluxSm[i + 1] >= fluxSm[i + 2]}
        best == {i \in peaks : \A j \in peaks : score(j) <= score(i)}
        bestIdx == IF peaks = {} THEN lo
                   ELSE CHOOSE i \in best : \A j \in best : i <= j
        secPerBeat == 60000 \div Max(60, Min(200,
                         IF analysis.bpm = 0 THEN 120 ELSE analysis.bpm))
        t == IF bestIdx < Len(analysis.timesSec)
             THEN analysis.timesSec[bestIdx + 1] ELSE 0
    IN  Max(0, RoundDiv(t, secPerBeat) * secPerBeat)

\* regionDur / 2 of mixTracks
SpliceCenter(previewOnly, crossfadeSec) ==
    (IF previewOnly THEN RegionMs ELSE Max(RegionMs, crossfadeSec + RegionPadMs))
        \div 2

\* beatDropTransition: the two source starts and the blend window, for the
\* drop time found in B
BeatDropTransition(durationA, dropB, spliceCenter, crossfadeSec) ==
    [ dropB |-> dropB,
      spliceCenter |-> spliceCenter,
      whenA |-> 0,
      offsetA |-> Max(OffsetAMin, durationA - spliceCenter),
      whenB |-> Max(0, spliceCenter - dropB),
      offsetB |-> 0,
      fadeStart |-> spliceCenter - crossfadeSec \div 2,
      fadeDur |-> crossfadeSec ]

\* analysis of B with a flux spike and a step up of the RMS at one frame
\* (no frames at all for "empty")
DropAnalysis(dropFrame, bpm) ==
    LET n == IF dropFrame = 0 THEN 0 ELSE DropFramesB
    IN  [ bpm |-> bpm,
          frameDurationSec |-> FrameStepMs,
          timesSec |-> [i \in 1..n |-> (i - 1) * FrameStepMs],
          spectralFlux |-> [i \in 1..n |->
                               IF i = dropFrame + 1 THEN 100000
                               ELSE 1000 + 100 * (i % 3)],
          rms |-> [i \in 1..n |-> IF i > dropFrame THEN 80000 ELSE 10000] ]

\* mixTracks with vibe "beatDrop" has decoded and analyzed both files
InitDrop ==
    /\ \E f \in {0, DropEarlyFrame, DropLateFrame}, bpm \in {0, 90, 128},
          dA \in {DropDurAShortMs, DropDurALongMs}, x \in Crossfades,
          po \in BOOLEAN, bl \in Blends :
         callIn = [fn |-> "beatDrop", anaB |-> DropAnalysis(f, bpm),
                   durationA |-> dA, crossfadeSec |-> x, previewOnly |-> po,
                   blend |-> bl]
    /\ callOut = None

\* if (vibe === "beatDrop") beatDropTransition(params)
BeatDropAction ==
    /\ callIn # None /\ callIn.fn = "beatDrop"
    /\ callOut = None
    /\ callOut' = BeatDropTransition(callIn.durationA,
                      FindPrimaryDrop(callIn.anaB),
                      SpliceCenter(callIn.previewOnly, callIn.crossfadeSec),
                      callIn.crossfadeSec)
    /\ UNCHANGED callIn
    /\ UNCHANGED notCall

(***************************************************************************)
(* dtw.dtwOffsetBeats                                                      *)
(***************************************************************************)
DtwMaxBeats == 3         \* chroma sequences of 0 .. DtwMaxBeats beats
Infinity == 1000000000   \* Array(m + 1).fill(Infinity)

\* 12-bin chroma vectors of the beats: two chords, and a silent beat
ChromaSet == { <<2, 0, 0, 0, 1, 0, 0, 1, 0, 0, 0, 0>>,
               <<1, 0, 0, 0, 0, 2, 0, 0, 0, 1, 0, 0>>,
               <<0, 0, 0, 0, 0, 0, 0, 0, 0, 0, 0, 0>> }
ChromaSeqs == UNION { [1..k -> ChromaSet] : k \in 0..DtwMaxBeats }

\* Math.sqrt on the integers met here: floor of the root in units of 1/100,
\* the largest r in lo..hi with r * r <= 10000 * x, by bisection
RECURSIVE SqrtBetween(_, _, _)
SqrtBetween(x, lo, hi) ==
    IF lo >= hi THEN lo
    ELSE LET mid == (lo + hi + 1) \div 2
         IN  IF mid * mid <= 10000 * x
             THEN SqrtBetween(x, mid, hi)
             ELSE SqrtBetween(x, lo, mid - 1)
Sqrt100(x) == SqrtBetween(x, 0, 100 * Max(1, x))

\* cosine(a, b) = num / (sqrt(ax * ay) || 1), in units of 1/FxOne
Cosine(a, b) ==
    LET num == SumSeq([k \in 1..Len(a) |-> a[k] * b[k]])
        ax == SumSeq([k \in 1..Len(a) |-> a[k] * a[k]])
        ay == SumSeq([k \in 1..Len(a) |-> b[k] * b[k]])
        root == Sqrt100(ax * ay)
    IN  IF root = 0 THEN num * FxOne ELSE (num * FxOne * 100) \div root

\* dist(i, j) = 1 - cosine(chromA[i], chromB[j]), 0-based as in the source
Dist(chromA, chromB, i, j) == FxOne - Cosine(chromA[i + 1], chromB[j + 1])

\* the values of dist over the table, dists[i][j] for 1-based i, j
DistTable(chromA, chromB) ==
    AsSeq([i \in 1..Len(chromA) |->
        AsSeq([j \in 1..Len(chromB) |-> Dist(chromA, chromB, i - 1, j - 1)])])

\* (variant of the recurrence without the diagonal neighbour)
StepMinNoDiagonal(up, left, diag) == Min(up, left)
\* Math.min(D[i - 1][j], D[i][j - 1], D[i - 1][j - 1])
StepMin(up, left, diag) == Min(up, Min(left, diag))

\* row i >= 1 of the table D, columns 1..m, filled from left to right as
\* the inner loop does; prev is row i - 1 (<<>> for row 0, where D[0][0] = 0
\* and the rest is Infinity), column 0 is Infinity
RECURSIVE DtwRow(_, _, _, _, _)
DtwRow(dists, prev, i, j, acc) ==
    IF j > Len(dists[i]) THEN acc
    ELSE LET up == IF i = 1 THEN Infinity ELSE prev[j]
             left == IF j = 1 THEN Infinity ELSE acc[j - 1]
             diag == IF i = 1 THEN (IF j = 1 THEN 0 ELSE Infinity)
                     ELSE IF j = 1 THEN Infinity ELSE prev[j - 1]
         IN  DtwRow(dists, prev, i, j + 1,
                    Append(acc, dists[i][j] + StepMin(up, left, diag)))

\* rows 1..i of the outer loop: the row D[i]
RECURSIVE DtwD(_, _)
DtwD(dists, i) ==
    DtwRow(dists, IF i = 1 THEN <<>> ELSE DtwD(dists, i - 1), i, 1, <<>>)

\* dtwOffsetBeats(chromA, chromB)
DtwOffsetBeats(chromA, chromB) ==
    LET n == Len(chromA)
        m == Len(chromB)
    IN  IF n = 0 \/ m = 0 THEN [offsetBeats |-> 0, cost |-> 0]
        ELSE LET last == DtwD(DistTable(chromA, chromB), n)
                 \* jBest moves only on a strictly smaller D[n][j]
                 jBest == CHOOSE j \in 1..m :
                             /\ \A k \in 1..m : last[j] <= last[k]
                             /\ \A k \in 1..(j - 1) : last[k] > last[j]
             IN  [offsetBeats |-> jBest - n, cost |-> last[jBest]]

\* dtwOffsetBeats is called with the chroma of the last beats of A and of
\* the first beats of B
InitDtw ==
    /\ \E a \in ChromaSeqs, b \in ChromaSeqs :
         callIn = [fn |-> "dtwOffsetBeats", chromA |-> a, chromB |-> b]
    /\ callOut = None

DtwReturns ==
    /\ callIn # None /\ callIn.fn = "dtwOffsetBeats"
    /\ callOut = None
    /\ callOut' = DtwOffsetBeats(callIn.chromA, callIn.chromB)
    /\ UNCHANGED callIn
    /\ UNCHANGED notCall

(***************************************************************************)
(* generateCandidates called on its own                                    *)
(***************************************************************************)
\* generateCandidates({ analysisA, analysisB, rangeA, rangeB, ... }) is
\* called, with the default ranges of the page or with whole-track ranges
InitCand ==
    /\ \E dA \in QaDurations, dB \in QaDurations, sr \in QaSampleRates,
          bpms \in QaBpmPairs, rA \in RmsShapes, rB \in RmsShapes,
          os \in OnsetShapes, whole \in BOOLEAN :
         LET A == QaAnalysis(dA, sr, bpms[1], rA, os)
             B == QaAnalysis(dB, sr, bpms[2], rB, os)
         IN  callIn = [fn |-> "generateCandidates",
                       analysisA |-> A, analysisB |-> B,
                       ranges |-> IF whole
                                  THEN [rangeA |-> [startSec |-> 0, endSec |-> dA],
                                        rangeB |-> [startSec |-> 0, endSec |-> dB]]
                                  ELSE GetDefaultRanges(A, B)]
    /\ callOut = None

\* generateCandidates returns the deduplicated list
GenerateCandidatesReturns ==
    /\ callIn # None /\ callIn.fn = "generateCandidates"
    /\ callOut = None
    /\ callOut' = GenerateCandidates(callIn.analysisA, callIn.analysisB,
                                     callIn.ranges.rangeA, callIn.ranges.rangeB,
                                     QaXfDefaultMs)
    /\ UNCHANGED callIn
    /\ UNCHANGED notCall

(***************************************************************************)
(* buildMixGraph: the automation events scheduled on gainA and gainB       *)
(***************************************************************************)
\* type BlendMode of blendEnvelopes.ts
BlendModes == {"overlap", "dipThenPunch", "gapCut", "punchIn"}
\* plans whose fade is empty, shorter than half a beat past a whole number
\* of beats, longer than that, and a whole number of beats
AutoPlans == {[fadeStart |-> fs, fadeDur |-> fd, entryBeatB |-> 0] :
                 fs \in {300, 20000}, fd \in {0, 3200, 3700, 8000}}
AutoBpms == {60, 120}
PumpDepth == 5500        \* depth passed by buildMixGraph: 0.55

\* gain.setValueAtTime(v, t) and gain.linearRampToValueAtTime(v, t)
SetValueAtTime(v, t) == [op |-> "set", value |-> v, time |-> t]
LinearRampToValueAtTime(v, t) == [op |-> "ramp", value |-> v, time |-> t]

\* applyBlendEnvelope: the events it schedules, in call order
ApplyBlendEnvelope(fadeStart, fadeDur, mode) ==
    LET fadeEnd == fadeStart + Max(0, fadeDur)
    IN  CASE mode = "overlap" ->
               [ A |-> [i \in 1..(OverlapSteps + 1) |->
                          SetValueAtTime(OverlapGainA(i - 1),
                              fadeStart + ((i - 1) * fadeDur) \div OverlapSteps)],
                 B |-> [i \in 1..(OverlapSteps + 1) |->
                          SetValueAtTime(OverlapGainB(i - 1),
                              fadeStart + ((i - 1) * fadeDur) \div OverlapSteps)] ]
          [] mode = "dipThenPunch" ->
               LET t0 == fadeStart
                   tMid == t0 + (fadeDur * 40) \div 100
                   tPunch == t0 + (fadeDur * 55) \div 100
               IN  [ A |-> << SetValueAtTime(FxOne, t0),
                              LinearRampToValueAtTime((15 * FxOne) \div 100, tMid),
                              LinearRampToValueAtTime(0, fadeEnd) >>,
                     B |-> << SetValueAtTime(0, t0),
                              LinearRampToValueAtTime((85 * FxOne) \div 100, tPunch),
                              LinearRampToValueAtTime(FxOne, fadeEnd) >> ]
          [] mode = "gapCut" ->
               LET gap == Min(80, (fadeDur * 15) \div 100)
                   cutA == fadeStart + Max(0, fadeDur \div 2 - gap \div 2)
                   riseB == cutA + gap
               IN  [ A |-> << SetValueAtTime(FxOne, fadeStart),
                              LinearRampToValueAtTime(0, cutA) >>,
                     B |-> << SetValueAtTime(0, fadeStart),
                              SetValueAtTime(0, riseB),
                              LinearRampToValueAtTime(FxOne, fadeEnd) >> ]
          [] mode = "punchIn" ->
               LET duck == Min(120, fadeDur \div 4)
                   tDuck == fadeStart + duck
               IN  [ A |-> << SetValueAtTime(FxOne, fadeStart),
                              LinearRampToValueAtTime((25 * FxOne) \div 100, tDuck),
                              LinearRampToValueAtTime(0, fadeEnd) >>,
                     B |-> << SetValueAtTime(0, fadeStart),
                              LinearRampToValueAtTime((90 * FxOne) \div 100, tDuck),
                              LinearRampToValueAtTime(FxOne, fadeEnd) >> ]

\* (variant of the pump that schedules nothing)
NoPump(fadeStart, fadeDur, secPerBeat, depth) == <<>>

\* applySidechainPump: three events per beat on gainNodeA; gain.value is the
\* 1 the node was created with (nothing has been rendered yet)
ApplySidechainPump(fadeStart, fadeDur, secPerBeat, depth) ==
    LET beats == Max(1, RoundDiv(fadeDur, secPerBeat))
        t0 == fadeStart
        Beat(i) ==
            LET bStart == t0 + i * secPerBeat
                bMid == bStart + (secPerBeat * 15) \div 100
                bEnd == bStart + secPerBeat
            IN  << SetValueAtTime(FxOne, bStart),
                   LinearRampToValueAtTime(Max(FxOne \div 1000, FxOne - depth), bMid),
                   LinearRampToValueAtTime(FxOne, bEnd) >>
    IN  [k \in 1..(3 * beats) |-> Beat((k - 1) \div 3)[((k - 1) % 3) + 1]]

\* buildMixGraph: everything it schedules on gainA.gain and gainB.gain, in
\* call order; of the vibes only "pump" is handed a gain param to write
GainEvents(pl, timeOffsetSec, bpmA, blendMode, vibe) ==
    LET secPerBeat == 60000 \div (IF bpmA = 0 THEN 120 ELSE bpmA)
        fadeStart == Max(0, pl.fadeStart - timeOffsetSec)
        fadeDur == Max(0, pl.fadeDur)
        env == ApplyBlendEnvelope(fadeStart, fadeDur, blendMode)
        fx == IF vibe = "pump"
              THEN ApplySidechainPump(fadeStart, fadeDur, secPerBeat, PumpDepth)
              ELSE <<>>
    IN  [ fadeStart |-> fadeStart,
          fadeDur |-> fadeDur,
          gainA |-> AsSeq(<<SetValueAtTime(FxOne, 0)>> \o AsSeq(env.A) \o AsSeq(fx)),
          gainB |-> AsSeq(<<SetValueAtTime(0, 0)>> \o AsSeq(env.B)) ]

\* buildMixGraph is called for a full render (offset 0) or for a preview
InitAuto ==
    /\ callIn \in
         { g \in [ fn : {"buildMixGraph"}, plan : AutoPlans,
                   timeOffsetSec : {0, 150, 5000}, bpmA : AutoBpms,
                   blendMode : BlendModes, vibe : AllVibes ] :
             g.timeOffsetSec \in {0, Max(0, g.plan.fadeStart - PRE),
                                  g.plan.fadeStart \div 2} }
    /\ callOut = None

BuildMixGraphSchedules ==
    /\ callIn # None /\ callIn.fn = "buildMixGraph"
    /\ callOut = None
    /\ callOut' = GainEvents(callIn.plan, callIn.timeOffsetSec, callIn.bpmA,
                             callIn.blendMode, callIn.vibe)
    /\ UNCHANGED callIn
    /\ UNCHANGED notCall

(***************************************************************************)
(* /qa page: analyzeFile runs for track A and track B                      *)
(***************************************************************************)
MaxAnalyses == 4         \* file selections (each starts an analyzeFile run)
Tracks == {"A", "B"}

AnaIdle ==
    /\ fileOf = None /\ analysisOf = None /\ isAnalyzing = FALSE
    /\ pending = {} /\ started = 0 /\ pressed = None

\* the page as mounted: no file, no analysis, isAnalyzing false
InitAna ==
    /\ fileOf = [t \in Tracks |-> 0]
    /\ analysisOf = [t \in Tracks |-> 0]
    /\ isAnalyzing = FALSE
    /\ pending = {}
    /\ started = 0
    /\ pressed = None

\* the user picks a file for a track (each pick is a new File object, here
\* numbered): setFileA / setFileB, then the effect calls analyzeFile, which
\* runs up to its first await
SelectFile(t) ==
    /\ started < MaxAnalyses
    /\ started' = started + 1
    /\ fileOf' = [fileOf EXCEPT ![t] = started + 1]
    /\ isAnalyzing' = TRUE
    /\ pending' = pending \cup {[track |-> t, file |-> started + 1]}
    /\ UNCHANGED <<analysisOf, pressed>>
    /\ UNCHANGED notAna

\* decodeAudioData and analyzeBuffer have resolved: setAnalysisA/B, finally
AnalysisResolves(r) ==
    /\ r \in pending
    /\ analysisOf' = [analysisOf EXCEPT ![r.track] = r.file]
    /\ isAnalyzing' = FALSE
    /\ pending' = pending \ {r}
    /\ UNCHANGED <<fileOf, started, pressed>>
    /\ UNCHANGED notAna

\* decoding or the analysis has thrown: catch, finally
AnalysisRejects(r) ==
    /\ r \in pending
    /\ isAnalyzing' = FALSE
    /\ pending' = pending \ {r}
    /\ UNCHANGED <<fileOf, analysisOf, started, pressed>>
    /\ UNCHANGED notAna

\* the button is rendered when both analyses are set and is disabled while
\* isAnalyzing; computeBestSplice reads analysisA and analysisB
ClickComputeBestSplice ==
    /\ analysisOf["A"] # 0 /\ analysisOf["B"] # 0
    /\ ~isAnalyzing
    /\ pressed' = [ inFlight |-> Cardinality(pending),
                    analysisA |-> analysisOf["A"],
                    analysisB |-> analysisOf["B"] ]
    /\ UNCHANGED <<fileOf, analysisOf, isAnalyzing, pending, started>>
    /\ UNCHANGED notAna

(***************************************************************************)
(* Specifications                                                          *)
(***************************************************************************)
NextBlend ==
    \/ MakeCurveStep
    \/ OverlapStep
    \/ PreviewCurveStep
\* a curve is being generated; no mix and no QA session is running
InitSpecBlend == InitBlend /\ MixIdle /\ QAIdle /\ WavIdle /\ FbIdle /\ AbIdle
                   /\ PageIdle /\ GraphIdle /\ CallIdle /\ AnaIdle
SpecBlend == InitSpecBlend /\ [][NextBlend]_vars

NextMix ==
    \/ AnalyzeAndPlan
    \/ RenderPreviewAction
    \/ RenderFullAction
\* mixTracks has been called; nothing else is running
InitSpecMix == InitMix /\ BlendIdle /\ QAIdle /\ WavIdle /\ FbIdle /\ AbIdle
                   /\ PageIdle /\ GraphIdle /\ CallIdle /\ AnaIdle
SpecMix == InitSpecMix /\ [][NextMix]_vars

NextQA ==
    \/ ComputeBestSplice
    \/ SelectCandidate
    \/ OnRender
\* the /qa page holds both analyses; nothing else is running
InitSpecQA == InitQA /\ BlendIdle /\ MixIdle /\ WavIdle /\ FbIdle /\ AbIdle
                   /\ PageIdle /\ GraphIdle /\ CallIdle /\ AnaIdle
SpecQA == InitSpecQA /\ [][NextQA]_vars

NextWav ==
    \/ WriteFrame
    \/ ReadBack
\* a rendered buffer is being encoded; nothing else is running
InitSpecWav == InitWav /\ BlendIdle /\ MixIdle /\ QAIdle /\ FbIdle /\ AbIdle
                   /\ PageIdle /\ GraphIdle /\ CallIdle /\ AnaIdle
SpecWav == InitSpecWav /\ [][NextWav]_vars

NextFb ==
    \/ OnsetEnvelope
    \/ EstimateBpm
\* the fallback analyzer runs on a signal and on its scaled copy
InitSpecFb == InitFb /\ BlendIdle /\ MixIdle /\ QAIdle /\ WavIdle /\ AbIdle
                   /\ PageIdle /\ GraphIdle /\ CallIdle /\ AnaIdle
SpecFb == InitSpecFb /\ [][NextFb]_vars

NextAb ==
    \/ \E p \in Calls : CallAnalyzeBuffer(p)
    \/ \E p \in Calls : LoadSettles(p)
    \/ \E p \in Calls : Dispatch(p)
    \/ \E p \in Calls : EssentiaSettles(p)
\* the page analyzes both tracks; nothing else is running
InitSpecAb == InitAb /\ BlendIdle /\ MixIdle /\ QAIdle /\ WavIdle /\ FbIdle
                   /\ PageIdle /\ GraphIdle /\ CallIdle /\ AnaIdle
SpecAb == InitSpecAb /\ [][NextAb]_vars

NextPage ==
    \/ SetFile
    \/ SetSettings
    \/ HandlePreview
    \/ PreviewResolves
    \/ PreviewRejects
    \/ HandleMixAndDownload
    \/ DownloadResolves
    \/ DownloadRejects
InitSpecPage == InitPage /\ BlendIdle /\ MixIdle /\ QAIdle /\ WavIdle /\ FbIdle
                    /\ AbIdle /\ GraphIdle /\ CallIdle /\ AnaIdle
SpecPage == InitSpecPage /\ [][NextPage]_vars

NextGraph == BuildAndRender
InitSpecGraph == InitGraph /\ BlendIdle /\ MixIdle /\ QAIdle /\ WavIdle /\ FbIdle
                     /\ AbIdle /\ PageIdle /\ CallIdle /\ AnaIdle
SpecGraph == InitSpecGraph /\ [][NextGraph]_vars

NextPlan == PlanSpliceReturns
InitSpecPlan == InitPlan /\ BlendIdle /\ MixIdle /\ QAIdle /\ WavIdle /\ FbIdle
                    /\ AbIdle /\ PageIdle /\ GraphIdle /\ AnaIdle
SpecPlan == InitSpecPlan /\ [][NextPlan]_vars

NextDrop == BeatDropAction
InitSpecDrop == InitDrop /\ BlendIdle /\ MixIdle /\ QAIdle /\ WavIdle /\ FbIdle
                    /\ AbIdle /\ PageIdle /\ GraphIdle /\ AnaIdle
SpecDrop == InitSpecDrop /\ [][NextDrop]_vars

NextDtw == DtwReturns
InitSpecDtw == InitDtw /\ BlendIdle /\ MixIdle /\ QAIdle /\ WavIdle /\ FbIdle
                   /\ AbIdle /\ PageIdle /\ GraphIdle /\ AnaIdle
SpecDtw == InitSpecDtw /\ [][NextDtw]_vars

NextCand == GenerateCandidatesReturns
InitSpecCand == InitCand /\ BlendIdle /\ MixIdle /\ QAIdle /\ WavIdle /\ FbIdle
                    /\ AbIdle /\ PageIdle /\ GraphIdle /\ AnaIdle
SpecCand == InitSpecCand /\ [][NextCand]_vars

NextAuto == BuildMixGraphSchedules
InitSpecAuto == InitAuto /\ BlendIdle /\ MixIdle /\ QAIdle /\ WavIdle /\ FbIdle
                    /\ AbIdle /\ PageIdle /\ GraphIdle /\ AnaIdle
SpecAuto == InitSpecAuto /\ [][NextAuto]_vars

NextAna ==
    \/ \E t \in Tracks : SelectFile(t)
    \/ \E r \in pending : AnalysisResolves(r)
    \/ \E r \in pending : AnalysisRejects(r)
    \/ ClickComputeBestSplice
InitSpecAna == InitAna /\ BlendIdle /\ MixIdle /\ QAIdle /\ WavIdle /\ FbIdle
                   /\ AbIdle /\ PageIdle /\ GraphIdle /\ CallIdle
SpecAna == InitSpecAna /\ [][NextAna]_vars

(***************************************************************************)
(* Properties                                                              *)
(***************************************************************************)
\* -0.3 dBFS: 10^(-0.3 / 20) of full scale
PeakLimit == (FxOne * 966) \div 1000
\* tolerance of the gain comparisons (the series above are good to 1e-3)
GainTol == FxOne \div 200

\* C1: every plan returned by planSplice has fadeStart in [0, durationA],
\* fadeDur in [0, crossfadeSeconds] and entryBeatB in [0, duration of B].
C1_PlanWithinBounds ==
    mixPc \in {"planned", "rendered"} =>
        /\ 0 <= plan.fadeStart /\ plan.fadeStart <= mixIn.durationA
        /\ 0 <= plan.fadeDur /\ plan.fadeDur <= mixIn.crossfadeSeconds
        /\ 0 <= plan.entryBeatB /\ plan.entryBeatB <= mixIn.durationB

\* a plan in the interior of both tracks with the full crossfade length
C1_Witness ==
    /\ mixPc = "planned"
    /\ plan.fadeStart > 0 /\ plan.fadeStart < mixIn.durationA
    /\ plan.fadeDur = mixIn.crossfadeSeconds
    /\ plan.entryBeatB > 0

\* C2: every candidate returned by generateCandidates has tA inside rangeA,
\* tB inside rangeB, and its crossfade window ends inside rangeA
\* (tA + xf <= rangeA.endSec), also when no beat of B lies inside rangeB.
C2_CandidatesInsideRanges ==
    qaPc \in {"computed", "rendered"} =>
        \A k \in 1..Len(cands) :
            /\ ranges.rangeA.startSec <= cands[k].tA
            /\ cands[k].tA <= ranges.rangeA.endSec
            /\ ranges.rangeB.startSec <= cands[k].tB
            /\ cands[k].tB <= ranges.rangeB.endSec
            /\ cands[k].tA + qaIn.xf <= ranges.rangeA.endSec

\* C3: both windows of getDefaultRanges / chooseInteriorRanges satisfy
\* 0 <= startSec <= endSec <= duration of their track.
C3_RangesInsideTracks ==
    qaPc \in {"computed", "rendered"} =>
        /\ 0 <= ranges.rangeA.startSec
        /\ ranges.rangeA.startSec <= ranges.rangeA.endSec
        /\ ranges.rangeA.endSec <= qaIn.analysisA.duration
        /\ 0 <= ranges.rangeB.startSec
        /\ ranges.rangeB.startSec <= ranges.rangeB.endSec
        /\ ranges.rangeB.endSec <= qaIn.analysisB.duration

\* C4: the absolute peak of the buffer that mixTracks encodes is at most
\* -0.3 dBFS for inputs with samples in [-1, 1]; the peak is at least the
\* level of the first frame, so the first frame is at most -0.3 dBFS.
C4_PeakBelowLimit ==
    mixPc = "rendered" => render.head <= PeakLimit

\* C5: at every point of every equal-power implementation --
\* makeCurve('equalPower'), the 'overlap' mode of applyBlendEnvelope, the
\* pre-gain curves of renderTwoBarPreview -- gA^2 + gB^2 = 1 within tolerance.
C5_EqualPowerSum ==
    (\/ curveSrc \in {"overlap", "preview"}
     \/ curveSrc = "makeCurve" /\ curveKind = "equalPower") =>
        \A k \in 1..Len(curveA) :
            Abs(curveA[k] * curveA[k] + curveB[k] * curveB[k] - FxOne * FxOne)
                <= 2 * GainTol * FxOne

\* C6: for every kind of makeCurve the B curve ends at gB(1) = 1, and for
\* every kind other than 'cut' the A curve starts at gA(0) = 1.
C6_CurveEndpoints ==
    (curveSrc = "makeCurve" /\ curveI = CurveN) =>
        /\ Abs(curveB[CurveN] - FxOne) <= GainTol
        /\ curveKind # "cut" => Abs(curveA[1] - FxOne) <= GainTol

\* C7: with blend = 'cut' the B curve is 0 at every position x < 1 and 1 at
\* x = 1, so at no position both tracks have a non-zero gain.
C7_CutHasNoOverlap ==
    (curveSrc = "makeCurve" /\ curveKind = "cut") =>
        \A k \in 1..Len(curveB) :
            /\ curveB[k] = (IF k < CurveN THEN 0 ELSE FxOne)
            /\ ~(curveA[k] > 0 /\ curveB[k] > 0)

C10_RateIsClampedRatio ==
    (qaPc = "rendered" /\ qaIn.beatmatch) =>
        qaRender.playbackRateB = TempoMatch(qaIn.analysisA.bpm, qaIn.analysisB.bpm)

\* C11: encoding a buffer with samples in [-1, 1] and decoding the 16-bit
\* PCM back (value / 32768) keeps the number of frames and of channels, and
\* every decoded sample is within 1/32768 of the original.
C11_WavRoundTrip ==
    wavPc = "decoded" =>
        /\ wavOut.length = wavBuf.length
        /\ wavOut.numberOfChannels = wavBuf.numberOfChannels
        /\ \A c \in 1..wavBuf.numberOfChannels : \A i \in 1..wavBuf.length :
              Abs(wavBuf.channels[c][i] * PcmScale - wavOut.channels[c][i])
                  <= SampleDen

\* C12: the list returned by scoreCandidates is in non-increasing score
\* order (a NaN score compares false with everything), candidates of equal
\* score keep their generator order, and sorting the list again returns it
\* unchanged.
C12_SortedStableIdempotent ==
    qaPc \in {"computed", "rendered"} =>
        LET gen == GenerateCandidates(qaIn.analysisA, qaIn.analysisB,
                                      ranges.rangeA, ranges.rangeB, qaIn.xf)
            pos(c) == CHOOSE p \in 1..Len(gen) : CandKey(gen[p]) = CandKey(c)
        IN  /\ \A k \in 1..Len(cands) : \A j \in (k + 1)..Len(cands) :
                  /\ ~cands[k].scoreNaN /\ ~cands[j].scoreNaN
                  /\ cands[k].score >= cands[j].score
                  /\ cands[k].score = cands[j].score => pos(cands[k]) < pos(cands[j])
            /\ \A nanHigh \in BOOLEAN : SortByScore(cands, nanHigh) = cands

\* two identical 30 s tracks at 120 BPM with onsets on the beats
ClickTracks ==
    /\ qaIn.analysisA = qaIn.analysisB
    /\ qaIn.analysisA.duration = ClickTrackMs
    /\ qaIn.analysisA.bpm = 120
    /\ qaIn.analysisA.onsets = qaIn.analysisA.beats

\* C13: for two identical 30 s click tracks at 120 BPM, default ranges and
\* DEFAULT_WEIGHTS, the first scored candidate is a downbeat of A paired with
\* a downbeat of B and its tempo subscore is 1.
C13_ClickTracksTopCandidate ==
    (qaPc \in {"computed", "rendered"} /\ ClickTracks) =>
        /\ Len(cands) > 0
        /\ cands[1].isDownbeatA /\ cands[1].isDownbeatB
        /\ cands[1].sTempo = FxOne

\* the click tracks have been scored and the best candidate is selected
C13_Witness ==
    /\ qaPc = "computed" /\ ClickTracks
    /\ Len(cands) > 1 /\ selected = 1
    /\ ~cands[1].scoreNaN

\* C14: for a track A at 90 BPM and a track B at 128 BPM every returned
\* candidate has tA on the beat grid of A and tB on the beat grid of B
\* (candidates made from segment boundaries included), and every scored
\* candidate has a tempo subscore below 1.
C14_CandidatesOnBeatGrid ==
    (/\ qaPc \in {"computed", "rendered"}
     /\ qaIn.analysisA.bpm = 90 /\ qaIn.analysisB.bpm = 128) =>
        \A k \in 1..Len(cands) :
            /\ \E i \in 1..Len(qaIn.analysisA.beats) :
                  qaIn.analysisA.beats[i] = cands[k].tA
            /\ \E j \in 1..Len(qaIn.analysisB.beats) :
                  qaIn.analysisB.beats[j] = cands[k].tB
            /\ cands[k].sTempo < FxOne

\* largest value of the onset envelope before normalisation
FbPeak(rms) == MaxEnvUnfloored(OnsetEnv(rms))

C16_FallbackOnBackendFailure ==
    abPc # None =>
        \A p \in Calls :
            /\ abResult[p] # "rejected"
            /\ (abPc[p] = "done" /\ (abEnv.cdn # "ok" \/ abEnv.essentiaThrows[p]))
                  => abResult[p] = "fallback"

\* Essentia loaded, the analysis of a buffer threw, the call fell back
C16_Witness ==
    /\ abPc # None
    /\ \E p \in Calls :
          /\ abPc[p] = "done" /\ backend = "essentia"
          /\ abEnv.essentiaThrows[p] /\ abResult[p] = "fallback"
          /\ lastError = "analysis"

\* result of a call that runs alone
Alone(p) ==
    IF abEnv.cdn = "ok" /\ ~abEnv.essentiaThrows[p] THEN "essentia" ELSE "fallback"

\* C20: concurrent analyses do not interfere: in every interleaving each
\* analyzeBuffer call returns what it returns when run alone; a call never
\* takes the fallback analyzer because the other call is still loading.
C20_ConcurrentCallsIndependent ==
    abPc # None =>
        \A p \in Calls : abPc[p] = "done" => abResult[p] = Alone(p)

\* C17: when mixTracks fails during handlePreview or handleMixAndDownload,
\* previewUrl keeps the value it had before the call, an error message is
\* set and isProcessing is false again once the handler has finished; no
\* step of a handler changes the selected files or the settings.
C17_FailurePreservesSession ==
    /\ [](handler # None /\ handler.last = "failed" =>
             /\ previewUrl = handler.before
             /\ error # "null"
             /\ ~isProcessing)
    /\ [][isProcessing' # isProcessing => UNCHANGED <<files, settings>>]_vars

\* a preview succeeded, a later handler failed, the preview is still loaded
C17_Witness ==
    /\ handler # None /\ handler.last = "failed"
    /\ handler.before # 0 /\ previewUrl = handler.before
    /\ error = "Mix failed"

\* C18: rendering is deterministic: two calls of buildMixGraph + render
\* with identical buffers, plan, playback rate, blend mode and time offset
\* produce identical output buffers, for every vibe of the effect set.
C18_RenderDeterministic ==
    \A i, j \in 1..Len(rendered) : rendered[i] = rendered[j]

\* C19: when generateCandidates returns no candidate, the splice-selection
\* path still yields a splice (relaxed windows, or the fixed offset
\* duration - crossfade near the end of track A) whenever that offset is
\* non-negative: computeBestSplice never ends with no splice selected.
C19_SpliceDespiteNoCandidates ==
    (/\ qaPc \in {"computed", "rendered"}
     /\ Len(cands) = 0
     /\ Max(0, qaIn.analysisA.duration - qaIn.xf) >= 0)
        => selected > 0

\* C23: for durationA >= minIntro + crossfadeSeconds + minOutro, and every
\* beat list, energy profile and spectral flux, the fadeStart returned by
\* planSplice is at least minIntro (30 s) into A and leaves minOutro (15 s)
\* after the fade: fadeStart + crossfadeSeconds + minOutro <= durationA.
C23_SafeWindow ==
    (/\ mixPc \in {"planned", "rendered"}
     /\ mixIn.durationA >= MinIntro + mixIn.crossfadeSeconds + MinOutro)
        => /\ plan.fadeStart >= MinIntro
           /\ plan.fadeStart + mixIn.crossfadeSeconds + MinOutro <= mixIn.durationA

\* C24: for every input of planSplice, a zero or negative crossfadeSeconds
\* and a durationA shorter than the crossfade included, the returned plan has
\* fadeDur >= 0 and fadeStart + fadeDur <= durationA (when the computed fade
\* is negative, the plan is a short non-negative fade near the end of A).
C24_FadeClampedToA ==
    (callIn # None /\ callIn.fn = "planSplice" /\ callOut # None)
        => /\ callOut.fadeDur >= 0
           /\ callOut.fadeStart + callOut.fadeDur <= callIn.durationA

\* C22: with the Beat Drop vibe the instant dropB of track B, for every
\* dropB returned by findPrimaryDrop, is rendered at exactly spliceCenter on
\* the output timeline, also when dropB is larger than spliceCenter.
C22_DropAtSpliceCenter ==
    (callIn # None /\ callIn.fn = "beatDrop" /\ callOut # None)
        => callOut.whenB + (callOut.dropB - callOut.offsetB)
               = callOut.spliceCenter

\* the monotone warping paths from (1, 1) to (i, j): each step advances A,
\* B or both by one beat
RECURSIVE WarpPaths(_, _)
WarpPaths(i, j) ==
    IF i < 1 \/ j < 1 THEN {}
    ELSE IF i = 1 /\ j = 1 THEN {<< <<1, 1>> >>}
    ELSE {Append(p, <<i, j>>) :
            p \in WarpPaths(i - 1, j) \cup WarpPaths(i, j - 1)
                    \cup WarpPaths(i - 1, j - 1)}

\* cumulative cosine distance along a path
PathCost(dists, p) == SumSeq([k \in 1..Len(p) |-> dists[p[k][1]][p[k][2]]])

\* least cumulative distance aligning all of A with the first j beats of B
LeastCost(dists, j) ==
    LET costs == {PathCost(dists, p) : p \in WarpPaths(Len(dists), j)}
    IN  CHOOSE c \in costs : \A d \in costs : c <= d

\* C25: for non-empty chroma sequences A (n beats) and B (m beats),
\* dtwOffsetBeats returns cost = the minimum over j in 1..m of the least
\* cumulative cosine distance of a monotone warping path aligning all of A
\* with the first j beats of B, and offsetBeats = j* - n for the smallest
\* minimising j*; for an empty A or B it returns offsetBeats = 0, cost = 0.
C25_DtwIsLeastCostPrefix ==
    (callIn # None /\ callIn.fn = "dtwOffsetBeats" /\ callOut # None) =>
        LET a == callIn.chromA
            b == callIn.chromB
            n == Len(a)
            m == Len(b)
        IN  IF n = 0 \/ m = 0
            THEN callOut.offsetBeats = 0 /\ callOut.cost = 0
            ELSE LET jStar == callOut.offsetBeats + n
                     dists == DistTable(a, b)
                     least == [j \in 1..m |-> LeastCost(dists, j)] \o <<>>
                 IN  /\ jStar \in 1..m
                     /\ callOut.cost = least[jStar]
                     /\ \A j \in 1..m : least[j] >= callOut.cost
                     /\ \A j \in 1..(jStar - 1) : least[j] > callOut.cost

\* a call where B is longer than A, the best prefix is not the first one,
\* and the best path takes a diagonal step
C25_Witness ==
    /\ callIn # None /\ callIn.fn = "dtwOffsetBeats" /\ callOut # None
    /\ Len(callIn.chromA) >= 2 /\ Len(callIn.chromB) > Len(callIn.chromA)
    /\ callOut.offsetBeats > 0
    /\ callOut.cost < FxOne

\* phase of a returned candidate, read from its flags: downbeat pairs are
\* the only ones flagged isDownbeatA, boundary pairs the only other ones
\* flagged fromBoundaryA
PhaseOf(c) == IF c.isDownbeatA THEN 1 ELSE IF c.fromBoundaryA THEN 2 ELSE 3

\* C26: the list returned by generateCandidates has at most 120 entries, no
\* two entries with the same (round(tA*100), round(tB*100)) key, and is in
\* priority order: downbeat pairs, then boundary-in-A pairs, then plain beat
\* pairs; a pair generated in more than one phase keeps the flags of its
\* highest-priority occurrence.
C26_CandidatesCappedUniqueOrdered ==
    (callIn # None /\ callIn.fn = "generateCandidates" /\ callOut # None) =>
        LET list == callOut
            beatsA == InRange(callIn.analysisA.beats, callIn.ranges.rangeA)
            beatsB == InRange(callIn.analysisB.beats, callIn.ranges.rangeB)
            c1 == DownbeatPairs(beatsA, beatsB)
            c2 == IF Len(c1) < BoundaryPhaseBelow
                  THEN BoundaryPairs(beatsB,
                          InRange(EstimateBoundaries(callIn.analysisA),
                                  callIn.ranges.rangeA))
                  ELSE <<>>
            downKeys == {CandKey(c1[k]) : k \in 1..Len(c1)}
            boundKeys == {CandKey(c2[k]) : k \in 1..Len(c2)}
            n == Len(list)
        IN  /\ n <= CandCap
            /\ Cardinality({CandKey(list[i]) : i \in 1..n}) = n
            /\ \A i \in 1..(n - 1) : PhaseOf(list[i]) <= PhaseOf(list[i + 1])
            /\ \A i \in 1..n :
                  /\ CandKey(list[i]) \in downKeys => PhaseOf(list[i]) = 1
                  /\ CandKey(list[i]) \in boundKeys \ downKeys
                        => PhaseOf(list[i]) = 2

\* all three phases contributed, phase 3 generated the downbeat pairs
\* again, and the cap was reached
C26_Witness ==
    /\ callIn # None /\ callIn.fn = "generateCandidates" /\ callOut # None
    /\ Len(callOut) = CandCap
    /\ \A ph \in 1..3 : \E i \in 1..Len(callOut) : PhaseOf(callOut[i]) = ph

\* C27: the score of every candidate is the weighted formula over its
\* subscores, where the onset-clash subscore counts the onsets of either
\* track within +/- crossfadeSeconds (the crossfade length of the request)
\* of the splice, divided by 4 and clamped to 1 (here in quarters: 0..4).
C27_ClashWithinCrossfade ==
    qaPc \in {"computed", "rendered"} =>
        \A k \in 1..Len(cands) :
            LET c == cands[k]
                A == qaIn.analysisA
                B == qaIn.analysisB
                xf == qaIn.xf
            IN  c.clash = Min(4, OnsetCount(A.onsets, c.tA - xf, c.tA + xf)
                                 + OnsetCount(B.onsets, c.tB - xf, c.tB + xf))

\* calls whose loadEssentia is waiting for the CDN scripts
InFlight == {p \in Calls : abPc[p] = "loading"}

\* C28: in every interleaving of the calls at most one CDN load attempt is
\* in flight, loading is true exactly while an attempt is in flight (so it
\* is false again after every attempt, failed or not), and once an attempt
\* has completed loaded stays true and backend keeps its non-null value:
\* no later call starts another load, also after a failed load.
C28_SingleLoadThenPinned ==
    /\ [](Cardinality(InFlight) <= 1 /\ (loading <=> InFlight # {}))
    /\ [](loaded => backend \in {"essentia", "fallback"} /\ ~loading)
    /\ [][loaded => loaded' /\ backend' = backend /\ ~loading']_vars

\* the CDN attempt threw; both calls have finished on the pinned fallback
C28_Witness ==
    /\ abPc # None
    /\ abEnv.cdn = "throws" /\ loaded /\ ~loading /\ backend = "fallback"
    /\ \A p \in Calls : abPc[p] = "done" /\ abResult[p] = "fallback"

\* C29: the rendered output contains the whole transition: for every plan
\* of planSplice and every crossfade up to 24 s, the crossfade interval
\* [fadeStart, fadeStart + fadeDur] on the render timeline lies inside
\* [0, rendered duration], in the 30 s preview and in the full render.
C29_FadeInsideRender ==
    mixPc = "rendered" =>
        /\ render.graph.fadeStart >= 0
        /\ CeilFrames(render.graph.fadeStart + render.graph.fadeDur)
               <= render.frames


\* position of event i of an automation timeline before event j: by time,
\* events scheduled for the same time in the order of the calls
Precedes(ev, i, j) ==
    ev[i].time < ev[j].time \/ (ev[i].time = ev[j].time /\ i < j)

\* the param has value v at every time >= t: the last event at or before t
\* has value v and so has every later event
InForceFrom(ev, t, v) ==
    /\ \A i \in 1..Len(ev) : ev[i].time > t => ev[i].value = v
    /\ \A i \in 1..Len(ev) :
          (/\ ev[i].time <= t
           /\ \A j \in 1..Len(ev) : (ev[j].time <= t /\ j # i) => Precedes(ev, j, i))
             => ev[i].value = v

\* C21: for every vibe and every blend mode, the value in force from the
\* end of the fade (fadeStart + fadeDur) onward is 0 on gainA and 1 on
\* gainB; no effect leaves a later or overriding event with another value.
C21_HandoverComplete ==
    (callIn # None /\ callIn.fn = "buildMixGraph" /\ callOut # None)
        => /\ InForceFrom(callOut.gainA, callOut.fadeStart + callOut.fadeDur, 0)
           /\ InForceFrom(callOut.gainB, callOut.fadeStart + callOut.fadeDur, FxOne)


\* C30: in every interleaving of the analyzeFile runs of track A and track
\* B, re-selections included, isAnalyzing is true while an analysis is in
\* flight, so Compute best splice never runs while one is pending, and once
\* all have finished analysisA and analysisB are those of the selected files.
C30_AnalyzingCoversAllRuns ==
    fileOf # None =>
        /\ pending # {} => isAnalyzing
        /\ pressed # None => pressed.inFlight = 0
        /\ pending = {} =>
              \A t \in Tracks : analysisOf[t] # 0 => analysisOf[t] = fileOf[t]

====
